---- MODULE Spec2Model ----
(***************************************************************************)
(* Boffo (Google Sheets add-on that looks up FOLIO item records).          *)
(* Model of Code.js, release 1.9.0 (src/unnamed/part_001):                 *)
(*   - the credential/token session (withCredentials, saveFolioInfo, ...)  *)
(*   - the batched barcode lookup (lookUpBarcodes, itemRecords)            *)
(*   - the call-number range search (showItemsForCallNumberRange)          *)
(*   - the paginated fetch (getRecordsForQuery)                            *)
(* Text values (URL, tenant id, token) are sequences of symbols, <<>>      *)
(* standing for a property that is not set (getProperty gives null).       *)
(***************************************************************************)
EXTENDS Integers, Sequences, FiniteSets, TLC

VARIABLES
  \* --- PropertiesService.getUserProperties() ---
  boffo_folio_url, boffo_folio_tenant_id, boffo_folio_api_token, boffo_fields,
  \* --- fields form: the flags it submitted last, and the "fields" array as
  \*     the field-selection function that ran last left it ---
  selections, fieldsArray,
  \* --- a helper function called on its own: its arguments and what it
  \*     returned ---
  args, returned,
  \* --- credentials dialog and the last server-side invocation ---
  dialog, last,
  \* --- barcode lookup ---
  barcodes, known, sheet, row, batchIndex, result,
  \* --- call-number search and paginated fetch ---
  firstCN, lastCN, locationId, items, bulk, bulkESO,
  firstItemList, lastItemList, firstESO, lastESO, expected,
  matching, totalRecords, offset, records, caller, requests,
  \* --- position of the running operation and the error it quit with ---
  pc, error

propVars   == <<boffo_folio_url, boffo_folio_tenant_id, boffo_folio_api_token>>
credVars   == <<dialog, last>>
lookupVars == <<barcodes, known, sheet, row, batchIndex, result>>
rangeVars  == <<firstCN, lastCN, locationId, items, bulk, bulkESO,
                firstItemList, lastItemList, firstESO, lastESO, expected>>
pageVars   == <<matching, totalRecords, offset, records, caller, requests>>
fieldVars  == <<boffo_fields, selections, fieldsArray>>
callVars   == <<args, returned>>
vars == <<propVars, fieldVars, callVars, credVars, lookupVars, rangeVars, pageVars, pc, error>>

(***************************************************************************)
(* Small helpers on sequences.                                             *)
(***************************************************************************)
Min(a, b) == IF a < b THEN a ELSE b

Rep(x, n) == [i \in 1..n |-> x]

\* The list left in the order it has.
Reverse_none(s) == s

\* Array.prototype.reverse()
Reverse(s) == [i \in 1..Len(s) |-> s[Len(s) + 1 - i]]

SeqsUpTo(S, n) == UNION {[1..k -> S] : k \in 0..n}

(***************************************************************************)
(* Credentials: property store, token check, login.                        *)
(***************************************************************************)

\* URL values a user can type or an administrator can preset, character by
\* character: https://a, https://a/ and https://b//.
Https == <<"h", "t", "t", "p", "s", ":", "/", "/">>

Urls == {Https \o <<"a">>, Https \o <<"a", "/">>, Https \o <<"b", "/", "/">>}

TenantIds == {<<"t", "1">>, <<"t", "2">>}

Tokens == {<<"k1">>, <<"k2">>}

\* User name and password typed into the credentials form.
Users == {<<"u1">>}

Passwords == {<<"p1">>}

\* Names of the functions wrapped by withCredentials (function.name).
Operations == {"lookUpBarcodes", "findByCallNumbers"}

\* What UrlFetchApp.fetch can produce: an exception (threw) or a response
\* carrying a status code and, for a login, possibly an x-okapi-token header.
\* body is what getContentText() gives: "" (empty), "text" (not starting
\* with '{'), "errors" (a JSON object with errors[0].message), "json" (a JSON
\* object without errors[0]).
NoResponse == [threw |-> FALSE, code |-> 0, hasToken |-> FALSE, token |-> <<>>, body |-> ""]

FetchException == [threw |-> TRUE, code |-> 0, hasToken |-> FALSE, token |-> <<>>, body |-> ""]

Response(c) == [threw |-> FALSE, code |-> c, hasToken |-> FALSE, token |-> <<>>, body |-> ""]

CheckCodes == {200, 399, 400, 401, 500}

CheckResponses == {FetchException} \cup {Response(c) : c \in CheckCodes}

LoginCodes == {201, 299, 300, 422, 499, 500}

LoginBodies == {"text", "errors", "json"}

LoginResponses ==
  {FetchException} \cup {Response(c) : c \in LoginCodes}
  \cup {[threw |-> FALSE, code |-> c, hasToken |-> TRUE, token |-> t, body |-> ""] :
          c \in LoginCodes, t \in Tokens}
  \cup {[Response(422) EXCEPT !.body = b] : b \in LoginBodies}

isNonempty(value) == value # <<>>

stripTrailingSlash(url) ==
  IF Len(url) > 0 /\ url[Len(url)] = "/" THEN SubSeq(url, 1, Len(url) - 1) ELSE url

getStoredCredentials ==
  [folioUrl |-> boffo_folio_url,
   tenantId |-> boffo_folio_tenant_id,
   token    |-> boffo_folio_api_token]

haveCredentials ==
  /\ isNonempty(boffo_folio_url)
  /\ isNonempty(boffo_folio_tenant_id)
  /\ isNonempty(boffo_folio_api_token)

\* haveValidToken's verdict on a response that arrived (the fetch is not
\* inside a try block: an exception leaves the function, see
\* withCredentialsOutcome); below, the verdict with the bound of a success.
haveValidToken_below300(response) == response.code < 300

haveValidToken(response) == response.code < 400

ClosedDialog == [open |-> FALSE, callAfterSuccess |-> ""]

buildCredentialsDialog(callAfterSuccess) ==
  [open |-> TRUE, callAfterSuccess |-> callAfterSuccess]

\* What one call withCredentials(funcToCall) does, given the answer the
\* token check gets if it is made:
\*   executed  - the name of the function it called ("" if none)
\*   dialog    - the dialog shown afterwards
\*   requested - whether it showed the credentials dialog
\*   threw     - whether it ended with an exception
\*   check     - the answer of the token check (NoResponse if not made)
withCredentialsOutcome(funcToCall, check) ==
  LET c == getStoredCredentials
      haveCreds == isNonempty(c.folioUrl) /\ isNonempty(c.tenantId) /\ isNonempty(c.token)
  IN  IF ~haveCreds
      THEN [executed |-> "", dialog |-> buildCredentialsDialog(funcToCall),
            requested |-> TRUE, threw |-> FALSE, check |-> NoResponse]
      ELSE IF check.threw
      THEN [executed |-> "", dialog |-> dialog,
            requested |-> FALSE, threw |-> TRUE, check |-> check]
      ELSE IF haveValidToken(check)
      THEN [executed |-> funcToCall, dialog |-> dialog,
            requested |-> FALSE, threw |-> FALSE, check |-> check]
      ELSE [executed |-> "", dialog |-> buildCredentialsDialog(funcToCall),
            requested |-> TRUE, threw |-> FALSE, check |-> check]

\* The record kept of the last server-side invocation.
Invocation(handler, url, tenantId, callAfterSuccess, login, answer, w, ret) ==
  [handler |-> handler, url |-> url, tenantId |-> tenantId,
   callAfterSuccess |-> callAfterSuccess,
   before |-> getStoredCredentials,
   login |-> login, answer |-> answer, check |-> w.check,
   executed |-> w.executed, requested |-> w.requested, ret |-> ret,
   next |-> IF ret = "true" THEN callAfterSuccess ELSE "",
   user |-> <<>>, password |-> <<>>, alert |-> "", folioMsg |-> ""]

NoCall == [executed |-> "", dialog |-> dialog, requested |-> FALSE,
           threw |-> FALSE, check |-> NoResponse]

NoInvocation ==
  [handler |-> "none", url |-> <<>>, tenantId |-> <<>>, callAfterSuccess |-> "",
   before |-> [folioUrl |-> <<>>, tenantId |-> <<>>, token |-> <<>>],
   login |-> NoResponse, answer |-> "", check |-> NoResponse,
   executed |-> "", requested |-> FALSE, ret |-> "none", next |-> "",
   user |-> <<>>, password |-> <<>>, alert |-> "", folioMsg |-> ""]

\* gotToken with the status test of the following branch (below 500).
gotToken_below500(response) == ~response.threw /\ response.code < 500 /\ response.hasToken

\* The login answer on which saveFolioInfo stores what it was given.
gotToken(response) == ~response.threw /\ response.code < 300 /\ response.hasToken

\* A status for which saveFolioInfo asks "FOLIO rejected the request ... Try again?".
rejected(response) == ~response.threw /\ response.code >= 300 /\ response.code < 500

\* JSON.parse(...).errors[0].message raises a TypeError: the body is a JSON
\* object without errors[0].
parseFails(response) == response.body = "json"

\* folioMsg: the message of the first error of the body, or the body as it is.
folioMsg(response) ==
  IF response.body = "errors" THEN "errors[0].message"
  ELSE IF response.body = "text" THEN "body"
  ELSE ""

\* saveFolioInfo gets as far as asking "FOLIO rejected the request: ... Try
\* again?".
asked(response) == rejected(response) /\ ~parseFails(response)

\* The first alert saveFolioInfo shows for a login answer ("" if none).
loginAlert(response) ==
  IF response.threw THEN "Failed due to an unrecognized error"
  ELSE IF response.code < 300
  THEN (IF response.hasToken THEN "" ELSE "Unexpectedly failed to get a token back")
  ELSE IF response.code < 500
  THEN (IF parseFails(response) THEN "" ELSE "FOLIO rejected the request")
  ELSE "Failed due to a FOLIO server or network problem"

\* What is kept of the password instead of the token.
propertiesSet_password(url, tenantId, user, password, token) ==
  [boffo_folio_api_token |-> password,
   boffo_folio_url       |-> url,
   boffo_folio_tenant_id |-> tenantId]

\* The three props.setProperty calls of saveFolioInfo, url being the URL
\* after stripTrailingSlash and token the x-okapi-token header.
propertiesSet(url, tenantId, user, password, token) ==
  [boffo_folio_api_token |-> token,
   boffo_folio_url       |-> url,
   boffo_folio_tenant_id |-> tenantId]

\* The parts of the model the credential functions never touch.
OperationUnchanged ==
  UNCHANGED <<fieldVars, callVars, lookupVars, rangeVars, pageVars, pc, error>>

\* menuItemLookUpBarcodes / menuItemFindByCallNumbers: withCredentials(f).
\* The steps of the operation it may call are the lookup and search actions
\* below; none of them writes a credential property.
withCredentials(funcToCall) ==
  /\ ~dialog.open
  /\ \E check \in CheckResponses :
       LET w == withCredentialsOutcome(funcToCall, check)
       IN  /\ dialog' = w.dialog
           /\ last' = Invocation("withCredentials", <<>>, <<>>, funcToCall, NoResponse,
                                 "", w, IF w.threw THEN "threw" ELSE "none")
  /\ UNCHANGED propVars
  /\ OperationUnchanged

\* menuItemGetCredentials -> getCredentials().
menuItemGetCredentials ==
  /\ ~dialog.open
  /\ dialog' = buildCredentialsDialog("")
  /\ last' = Invocation("getCredentials", <<>>, <<>>, "", NoResponse, "",
                        [NoCall EXCEPT !.requested = TRUE], "none")
  /\ UNCHANGED propVars
  /\ OperationUnchanged

\* submitForm("Cancel") in credentials-form.html.
cancelForm ==
  /\ dialog.open
  /\ dialog' = ClosedDialog
  /\ last' = Invocation("cancel", <<>>, <<>>, "", NoResponse, "", NoCall, "none")
  /\ UNCHANGED propVars
  /\ OperationUnchanged

\* submitForm("Submit") -> saveFolioInfo(url, tenantId, user, password,
\* callAfterSuccess), followed by the form's success or failure handler, which
\* closes the dialog; "next" (see Invocation) is the function the success
\* handler hands to callBoffoFunction.
saveFolioInfo(url, tenantId, user, password, response, answer, check) ==
  /\ dialog.open
  /\ LET callAfterSuccess == dialog.callAfterSuccess
         stripped == stripTrailingSlash(url)
         set == propertiesSet(stripped, tenantId, user, password, response.token)
         \* "Try again?" answered YES: withCredentials(eval(callAfterSuccess))
         \* or getCredentials().
         again == IF callAfterSuccess # ""
                  THEN withCredentialsOutcome(callAfterSuccess, check)
                  ELSE [NoCall EXCEPT !.requested = TRUE,
                                      !.dialog = buildCredentialsDialog("")]
         w == IF asked(response) /\ answer = "YES" THEN again ELSE NoCall
         ret == IF gotToken(response) THEN "true"
                ELSE IF asked(response) /\ answer = "YES" /\ ~w.threw
                THEN (IF haveCredentials THEN "true" ELSE "false")
                ELSE "threw"
     IN  /\ IF gotToken(response)
            THEN /\ boffo_folio_api_token' = set.boffo_folio_api_token
                 /\ boffo_folio_url' = set.boffo_folio_url
                 /\ boffo_folio_tenant_id' = set.boffo_folio_tenant_id
            ELSE UNCHANGED propVars
         /\ dialog' = IF w.requested THEN w.dialog ELSE ClosedDialog
         /\ last' = [Invocation("saveFolioInfo", url, tenantId, callAfterSuccess,
                                response, answer, w, ret)
                       EXCEPT !.user = user, !.password = password,
                              !.alert = loginAlert(response),
                              !.folioMsg = IF asked(response) THEN folioMsg(response)
                                           ELSE ""]
  /\ OperationUnchanged

\* The characters [a-zA-Z] and [0-9] of the texts of the model.
AsciiLetters == {"a", "b", "h", "p", "s", "t"}

AsciiDigits == {"1", "2"}

\* pattern="^https://[a-zA-Z].*" of the url input, matched against the
\* whole value.
urlPattern(url) ==
  /\ Len(url) > Len(Https)
  /\ SubSeq(url, 1, Len(Https)) = Https
  /\ url[Len(Https) + 1] \in AsciiLetters

\* Any text passes for a tenant id.
tenantIdPattern_any(id) == TRUE

\* pattern="^[a-zA-Z][a-zA-Z0-9]+" of the tenantId input.
tenantIdPattern(id) ==
  /\ Len(id) >= 2
  /\ id[1] \in AsciiLetters
  /\ \A i \in 2..Len(id) : id[i] \in AsciiLetters \cup AsciiDigits

\* The form is submitted whatever it holds.
checkValidity_none(url, tenantId, user, password) == TRUE

\* The validation of the form by the browser when Submit is clicked: the
\* four inputs are required, url and tenantId have a pattern.
checkValidity(url, tenantId, user, password) ==
  /\ url # <<>> /\ tenantId # <<>> /\ user # <<>> /\ password # <<>>
  /\ urlPattern(url)
  /\ tenantIdPattern(tenantId)

\* The browser refuses to submit the form: submitForm is not called and the
\* dialog stays open.
formRejected(url, tenantId) ==
  /\ dialog.open
  /\ last' = Invocation("checkValidity", url, tenantId, dialog.callAfterSuccess,
                        NoResponse, "", NoCall, "none")
  /\ UNCHANGED <<propVars, dialog>>
  /\ OperationUnchanged

\* A click on Submit with the form holding a URL and a tenant id of the given
\* sets: FOLIO's answer to the login, the user's answer to "Try again?" when
\* it is asked, and FOLIO's answer to the token check when withCredentials
\* makes one.
submitFormOf(urls, tenantIds, responses) ==
  \E url \in urls, tenantId \in tenantIds, user \in Users, password \in Passwords :
    IF checkValidity(url, tenantId, user, password)
    THEN \E response \in responses :
           \E answer \in (IF asked(response) THEN {"YES", "NO"} ELSE {""}) :
             \E check \in (IF answer = "YES" /\ dialog.callAfterSuccess # ""
                               /\ haveCredentials
                            THEN CheckResponses ELSE {NoResponse}) :
               saveFolioInfo(url, tenantId, user, password, response, answer, check)
    ELSE formRejected(url, tenantId)

submitForm == submitFormOf(Urls, TenantIds, LoginResponses)

\* The success handler's google.script.run.callBoffoFunction(nextFunction).
callBoffoFunction ==
  /\ last.handler = "saveFolioInfo"
  /\ last.next # ""
  /\ last' = Invocation("callBoffoFunction", <<>>, <<>>, "", NoResponse, "",
                        [NoCall EXCEPT !.executed = last.next], "none")
  /\ UNCHANGED <<propVars, dialog>>
  /\ OperationUnchanged

\* Every stored credential deleted, not the token alone.
menuItemClearToken_all ==
  /\ ~dialog.open
  /\ boffo_folio_api_token' = <<>>
  /\ boffo_folio_url' = <<>>
  /\ boffo_folio_tenant_id' = <<>>
  /\ last' = Invocation("menuItemClearToken", <<>>, <<>>, "", NoResponse, "", NoCall, "none")
  /\ UNCHANGED dialog
  /\ OperationUnchanged

menuItemClearToken ==
  /\ ~dialog.open
  /\ boffo_folio_api_token' = <<>>
  /\ last' = Invocation("menuItemClearToken", <<>>, <<>>, "", NoResponse, "", NoCall, "none")
  /\ UNCHANGED <<boffo_folio_url, boffo_folio_tenant_id, dialog>>
  /\ OperationUnchanged

\* The script properties copied over the user properties that are set.
onInstall_overwrite ==
  /\ ~dialog.open
  /\ \E url \in Urls \cup {<<>>}, id \in TenantIds \cup {<<>>} :
       /\ boffo_folio_url' =
            IF isNonempty(url) THEN stripTrailingSlash(url) ELSE boffo_folio_url
       /\ boffo_folio_tenant_id' =
            IF isNonempty(id) THEN id ELSE boffo_folio_tenant_id
  /\ last' = Invocation("onInstall", <<>>, <<>>, "", NoResponse, "", NoCall, "none")
  /\ UNCHANGED <<boffo_folio_api_token, dialog>>
  /\ OperationUnchanged

\* onInstall: copies the script properties (set by an administrator) into
\* the user properties that are not set yet.
onInstall ==
  /\ ~dialog.open
  /\ \E url \in Urls \cup {<<>>}, id \in TenantIds \cup {<<>>} :
       /\ boffo_folio_url' =
            IF isNonempty(url) /\ ~isNonempty(boffo_folio_url)
            THEN stripTrailingSlash(url) ELSE boffo_folio_url
       /\ boffo_folio_tenant_id' =
            IF isNonempty(id) /\ ~isNonempty(boffo_folio_tenant_id)
            THEN id ELSE boffo_folio_tenant_id
  /\ last' = Invocation("onInstall", <<>>, <<>>, "", NoResponse, "", NoCall, "none")
  /\ UNCHANGED <<boffo_folio_api_token, dialog>>
  /\ OperationUnchanged

(***************************************************************************)
(* Field selections.                                                       *)
(***************************************************************************)

\* The head of the "fields" array: name, default "enabled" flag, "required".
fields ==
  <<[name |-> "Barcode",     enabled |-> TRUE,  required |-> TRUE],
    [name |-> "Title",       enabled |-> TRUE,  required |-> FALSE],
    [name |-> "Call number", enabled |-> FALSE, required |-> FALSE]>>

\* JSON.stringify(fields) after fields-form.html submitted the given flags.
storedFields(sel) ==
  [i \in 1..Len(fields) |-> [name |-> fields[i].name, enabled |-> sel[i]]]

\* The flag arrays the form can submit: the Barcode checkbox is read-only
\* and checked.
FormSelections == {sel \in [1..Len(fields) -> BOOLEAN] : sel[1]}

\* restoreFieldSelections() raises a TypeError: storedFields[index] is
\* undefined for a field beyond the end of the stored list.
restoreThrows == isNonempty(boffo_fields) /\ Len(boffo_fields) < Len(fields)

\* The "fields" array as loaded, nothing restored.
restoreFieldSelections_defaults == fields

\* restoreFieldSelections() applied to the freshly loaded "fields" array,
\* when it does not raise.
restoreFieldSelections ==
  IF isNonempty(boffo_fields)
  THEN [i \in 1..Len(fields) |->
          IF i <= Len(boffo_fields) /\ fields[i].name = boffo_fields[i].name
          THEN [fields[i] EXCEPT !.enabled = boffo_fields[i].enabled]
          ELSE fields[i]]
  ELSE fields

setFieldEnabled(fs, name, status) ==
  [i \in 1..Len(fs) |-> IF fs[i].name = name THEN [fs[i] EXCEPT !.enabled = status] ELSE fs[i]]

filterEnabled(fs) == SelectSeq(fs, LAMBDA f : f.enabled)

getEnabledFields == filterEnabled(setFieldEnabled(restoreFieldSelections, "Barcode", TRUE))

(***************************************************************************)
(* fetchJSON: the outcomes of one authenticated GET.                       *)
(***************************************************************************)

\* Answers on which fetchJSON quits: an exception of UrlFetchApp.fetch or a
\* status of 300 or above.
FailureCodes == {300, 401, 500}

FetchFailures == {FetchException} \cup {Response(c) : c \in FailureCodes}

\* The error with 403 not among the authentication errors.
fetchJSONError_401only(response) ==
  IF response.threw THEN "Failed due to an unrecognized error"
  ELSE IF response.code = 400
  THEN "A bug in Boffo resulted in a malformed API call to FOLIO."
  ELSE IF response.code = 401 THEN "Stopped due to an authentication error"
  ELSE IF response.code \in {409, 500, 501} THEN "Stopped due to a FOLIO server error"
  ELSE "Stopped due to an error"

\* The error fetchJSON quits with.
fetchJSONError(response) ==
  IF response.threw THEN "Failed due to an unrecognized error"
  ELSE IF response.code = 400
  THEN "A bug in Boffo resulted in a malformed API call to FOLIO."
  ELSE IF response.code \in {401, 403} THEN "Stopped due to an authentication error"
  ELSE IF response.code = 404 THEN "Stopped due to an error"
  ELSE IF response.code \in {409, 500, 501} THEN "Stopped due to a FOLIO server error"
  ELSE "Stopped due to an error"

\* The start of the details fetchJSON hands to quit with that error.
fetchJSONDetails(response) ==
  IF response.threw THEN "Please carefully check the values entered in the form"
  ELSE IF response.code = 400 THEN ""
  ELSE IF response.code \in {401, 403} THEN "The FOLIO server rejected the request"
  ELSE IF response.code = 404 THEN "The API call made by Boffo does not seem to exist"
  ELSE IF response.code \in {409, 500, 501}
  THEN "This may be due to a temporary network problem"
  ELSE "An error occurred communicating with FOLIO"

\* fetchJSON(endpoint, tenantId, token) for the answer UrlFetchApp.fetch
\* gives: it quits, or returns the parsed body.
fetchJSON(response) ==
  IF response.threw \/ response.code >= 300
  THEN [quit |-> TRUE, why |-> fetchJSONError(response),
        details |-> fetchJSONDetails(response), parsed |-> FALSE]
  ELSE [quit |-> FALSE, why |-> "", details |-> "", parsed |-> TRUE]

(***************************************************************************)
(* Barcode lookup.                                                         *)
(***************************************************************************)

\* A cell of the results sheet: <<field name, barcode of the item>> is the
\* value of that field of that item (<<"Barcode", b>> is the barcode text b
\* itself); EmptyCell is ''.
EmptyCell == <<"", 0>>

getValue(f, rec) == <<f.name, rec.barcode>>

\* The item record FOLIO holds for a barcode, and the barcode-only object.
ItemOf(barcode) == [barcode |-> barcode, id |-> barcode]

NotFound(barcode) == [barcode |-> barcode, id |-> 0]

hasId(rec) == rec.id # 0

RECURSIVE batchedListLoop(_, _, _, _, _)
batchedListLoop(input, sliceSize, sliceStart, sliceEnd, output) ==
  IF sliceStart < Len(input)
  THEN batchedListLoop(input, sliceSize, sliceEnd,
                       sliceEnd + Min(Len(input) - sliceEnd, sliceSize),
                       Append(output, SubSeq(input, sliceStart + 1, sliceEnd)))
  ELSE output

\* The whole input as one batch.
batchedList_oneBatch(input, sliceSize) == <<input>>

batchedList(input, sliceSize) ==
  batchedListLoop(input, sliceSize, 0, Min(sliceSize, Len(input)), <<>>)

\* Number of barcodes per request in lookUpBarcodes.
barcodeSliceSize == 50

barcodeBatches == batchedList(barcodes, barcodeSliceSize)

\* FOLIO's answer to the query barcode==b1 OR barcode==b2 ...: the items
\* whose barcode is among the terms.
FolioItemsByBarcode(batch) ==
  LET found == {b \in {batch[i] : i \in 1..Len(batch)} : b \in known}
  IN  [ok |-> TRUE, totalRecords |-> Cardinality(found), items |-> found]

\* itemRecords(barcodes, ...) on FOLIO's answer.
itemRecords(batch, answer) ==
  IF answer.totalRecords > 0
  THEN [i \in 1..Len(batch) |->
          IF batch[i] \in answer.items THEN ItemOf(batch[i]) ELSE NotFound(batch[i])]
  ELSE <<>>

\* [barcode, ...emptyValues]
barcodeOnlyRow(barcode, enabledFields) ==
  <<<<"Barcode", barcode>>>> \o Rep(EmptyCell, Len(enabledFields) - 1)

\* The rows lookUpBarcodes computes for one batch.
cellValuesFor(batch, recs, enabledFields) ==
  IF Len(recs) = 0
  THEN [i \in 1..Len(batch) |-> barcodeOnlyRow(batch[i], enabledFields)]
  ELSE [i \in 1..Len(recs) |->
          IF hasId(recs[i])
          THEN [j \in 1..Len(enabledFields) |-> getValue(enabledFields[j], recs[i])]
          ELSE barcodeOnlyRow(recs[i].barcode, enabledFields)]

\* Sheet row on which the next batch is written after this one.
nextRow(r, batch, recs) == r + Len(recs)

\* Range.setValues: rows start..start+Len(values)-1 of the sheet.
setValues(sh, start, values) ==
  [i \in 1..Len(sh) |->
     IF i >= start /\ i < start + Len(values) THEN values[i - start + 1] ELSE sh[i]]

\* createResultsSheet: the heading row followed by blank rows.
createResultsSheet(numRows, headings) == <<headings>> \o Rep(<<>>, numRows)

\* enabledFields.map(f => f.name), as cells.
headingsOf(enabledFields) == [j \in 1..Len(enabledFields) |-> <<enabledFields[j].name, 0>>]

CredsUnchanged == UNCHANGED <<propVars, fieldVars, callVars, credVars>>

\* lookUpBarcodes() up to the first request. It ends on the TypeError of
\* restoreFieldSelections; with no field enabled, createResultsSheet inserts
\* the sheet and then fails on its range of zero columns.
lookUpBarcodes ==
  /\ pc = "lookUpBarcodes"
  /\ IF Len(barcodes) = 0
     THEN /\ pc' = "done"
          /\ UNCHANGED <<sheet, row, batchIndex, error>>
     ELSE IF restoreThrows
     THEN /\ pc' = "quit"
          /\ error' = "TypeError"
          /\ UNCHANGED <<sheet, row, batchIndex>>
     ELSE IF Len(filterEnabled(restoreFieldSelections)) = 0
     THEN /\ sheet' = <<<<>>>>
          /\ pc' = "quit"
          /\ error' = "Exception"
          /\ UNCHANGED <<row, batchIndex>>
     ELSE /\ sheet' = createResultsSheet(Len(barcodes),
                                         headingsOf(filterEnabled(restoreFieldSelections)))
          /\ row' = 2
          /\ batchIndex' = 1
          /\ pc' = "batch"
          /\ error' = error
  /\ UNCHANGED <<barcodes, known, result>>
  /\ UNCHANGED <<rangeVars, pageVars>>
  /\ CredsUnchanged

\* One turn of barcodeBatches.forEach in which the request succeeds; the
\* turn of the last batch runs on to the end of lookUpBarcodes.
lookUpBatch ==
  /\ pc = "batch"
  /\ LET batch == barcodeBatches[batchIndex]
         enabledFields == filterEnabled(restoreFieldSelections)
         answer == FolioItemsByBarcode(batch)
         recs == itemRecords(batch, answer)
     IN  /\ result' = answer
         /\ sheet' = setValues(sheet, row, cellValuesFor(batch, recs, enabledFields))
         /\ row' = nextRow(row, batch, recs)
  /\ batchIndex' = batchIndex + 1
  /\ pc' = IF batchIndex = Len(barcodeBatches) THEN "done" ELSE "batch"
  /\ UNCHANGED <<barcodes, known, error>>
  /\ UNCHANGED <<rangeVars, pageVars>>
  /\ CredsUnchanged

\* The turn in which fetchJSON quits writes the barcodes of its batch.
lookUpBatchFails_written ==
  /\ pc = "batch"
  /\ \E response \in FetchFailures :
       /\ error' = fetchJSONError(response)
       /\ result' = [ok |-> FALSE, totalRecords |-> 0, items |-> {}]
  /\ LET batch == barcodeBatches[batchIndex]
         enabledFields == filterEnabled(restoreFieldSelections)
     IN  sheet' = setValues(sheet, row,
                            [i \in 1..Len(batch) |-> barcodeOnlyRow(batch[i], enabledFields)])
  /\ pc' = "quit"
  /\ UNCHANGED <<barcodes, known, row, batchIndex>>
  /\ UNCHANGED <<rangeVars, pageVars>>
  /\ CredsUnchanged

\* One turn of barcodeBatches.forEach in which fetchJSON quits.
lookUpBatchFails ==
  /\ pc = "batch"
  /\ \E response \in FetchFailures :
       /\ error' = fetchJSONError(response)
       /\ result' = [ok |-> FALSE, totalRecords |-> 0, items |-> {}]
  /\ pc' = "quit"
  /\ UNCHANGED <<barcodes, known, sheet, row, batchIndex>>
  /\ UNCHANGED <<rangeVars, pageVars>>
  /\ CredsUnchanged

(***************************************************************************)
(* Paginated fetch: getRecordsForQuery.                                    *)
(***************************************************************************)

\* Limit of one page request and step of the offset in getRecordsForQuery.
pageSize == 100

\* A request sent to /inventory/items and what FOLIO reported for it:
\*   kind  "cnProbe", "rangeProbe" (limit 0), "page" (limit 100), "locations"
\*   of    the fetch it belongs to (see caller)
\*   offset, eso1, eso2   parameters of the query
\*   total the totalRecords reported (probes)
\*   got   "items" (the records at that offset), "empty" (an empty items
\*         array), "none" (no items member), "failure" (fetchJSON quit)
Request(kind, of, off, eso1, eso2, total, got) ==
  [kind |-> kind, of |-> of, offset |-> off, eso1 |-> eso1, eso2 |-> eso2,
   total |-> total, got |-> got]

\* The server answers at most MaxEmptyPages page requests of one search with
\* an empty items array although records remain at that offset.
MaxEmptyPages == 1

emptyPagesSoFar ==
  Cardinality({i \in 1..Len(requests) : requests[i].got = "empty"})

\* The requests of one search that are followed: a search asks for at most
\* this many.
MaxRequests == 20

\* The records FOLIO holds at [offset, offset + limit) of the query's result.
pageAt(list, off, limit) == SubSeq(list, off + 1, Min(off + limit, Len(list)))

\* The loop as it was when results stopped at the first 1000 records.
loopContinues_first1000(off, total) == off <= total /\ off < 1000

\* for (let offset = 0; offset <= totalRecords; offset += 100)
loopContinues(off, total) == off <= total

\* if (results.items): true of every array, also of an empty one.
truthyItems(got) == got \in {"items", "empty"}

(***************************************************************************)
(* Call-number range search.                                               *)
(***************************************************************************)

\* Limit imposed by Google sheets on the number of cells.
maxGoogleSheetCells == 10000000

maxRows(numColumns) == (maxGoogleSheetCells \div numColumns) - 1

\* The test without the division by the number of columns.
exceedsCapacity_cells(total, numColumns) == total > maxGoogleSheetCells

exceedsCapacity(total, numColumns) == total > maxRows(numColumns)

\* Call numbers are sequences of characters: letters, digits, the space and
\* the period; "*" occurs in queries only.
Letters ==
  {"A", "B", "C", "D", "E", "F", "G", "H", "I", "J", "K", "L", "M",
   "N", "O", "P", "Q", "R", "S", "T", "U", "V", "W", "X", "Y", "Z",
   "a", "b", "c", "d", "e", "f", "g", "h", "i", "j", "k", "l", "m",
   "n", "o", "p", "q", "r", "s", "t", "u", "v", "w", "x", "y", "z"}

Digits == {"0", "1", "2", "3", "4", "5", "6", "7", "8", "9"}

Spaces == {" "}

\* The index behind the longest run of characters of the class that starts
\* at index i (i itself if there is none): a greedy [class]* of a regexp.
RECURSIVE runEnd(_, _, _)
runEnd(s, i, class) ==
  IF i <= Len(s) /\ s[i] \in class THEN runEnd(s, i + 1, class) ELSE i

\* splitClassRe.exec(cn), splitClassRe being
\* /^(?<letters>[A-Z]+)\s+(?<numbers>[0-9]+)(?<other>[^0-9])/i
splitClassMatch(cn) ==
  LET l == runEnd(cn, 1, Letters)
      w == runEnd(cn, l, Spaces)
      d == runEnd(cn, w, Digits)
  IN  [matched  |-> l > 1 /\ w > l /\ d > w /\ d <= Len(cn),
       letters  |-> SubSeq(cn, 1, l - 1),
       numbers  |-> SubSeq(cn, w, d - 1),
       restOfCN |-> SubSeq(cn, d, Len(cn))]

\* "Remove any space between the initial letter(s) and the first number."
removeClassSpace(cn) ==
  LET m == splitClassMatch(cn)
  IN  IF m.matched THEN m.letters \o m.numbers \o m.restOfCN ELSE cn

\* cn.replace(/\s+\.(?! )/g, ' *'), from index i on.
RECURSIVE replaceSpacePeriod(_, _)
replaceSpacePeriod(s, i) ==
  IF i > Len(s) THEN <<>>
  ELSE IF s[i] \in Spaces
  THEN LET j == runEnd(s, i, Spaces)
       IN  IF j <= Len(s) /\ s[j] = "." /\ (j + 1 > Len(s) \/ s[j + 1] # " ")
           THEN <<" ", "*">> \o replaceSpacePeriod(s, j + 1)
           ELSE SubSeq(s, i, j - 1) \o replaceSpacePeriod(s, j)
  ELSE <<s[i]>> \o replaceSpacePeriod(s, i + 1)

\* cn.replace(/\s+(?=[a-z])/gi, ' *'), from index i on.
RECURSIVE replaceSpaceLetter(_, _)
replaceSpaceLetter(s, i) ==
  IF i > Len(s) THEN <<>>
  ELSE IF s[i] \in Spaces
  THEN LET j == runEnd(s, i, Spaces)
       IN  IF j <= Len(s) /\ s[j] \in Letters
           THEN <<" ", "*">> \o replaceSpaceLetter(s, j)
           ELSE SubSeq(s, i, j - 1) \o replaceSpaceLetter(s, j)
  ELSE <<s[i]>> \o replaceSpaceLetter(s, i + 1)

\* cn.replace(/(?<=[0-9])\.(?=[a-z])/gi, '*.'), from index i on.
RECURSIVE replaceDigitPeriodLetter(_, _)
replaceDigitPeriodLetter(s, i) ==
  IF i > Len(s) THEN <<>>
  ELSE IF /\ s[i] = "."
          /\ i > 1 /\ s[i - 1] \in Digits
          /\ i < Len(s) /\ s[i + 1] \in Letters
  THEN <<"*", ".">> \o replaceDigitPeriodLetter(s, i + 1)
  ELSE <<s[i]>> \o replaceDigitPeriodLetter(s, i + 1)

\* The call number getItemsForCN puts into its query.
wildcardedCN(cn) ==
  replaceDigitPeriodLetter(
    replaceSpaceLetter(
      replaceSpacePeriod(removeClassSpace(cn), 1), 1), 1)

\* FOLIO's == on a text field: the whole value equals the term, "*" in the
\* term standing for any characters or none.
RECURSIVE cqlMatches(_, _)
cqlMatches(term, value) ==
  IF Len(term) = 0 THEN Len(value) = 0
  ELSE IF Head(term) = "*"
  THEN \/ cqlMatches(Tail(term), value)
       \/ Len(value) > 0 /\ cqlMatches(term, Tail(value))
  ELSE /\ Len(value) > 0
       /\ Head(value) = Head(term)
       /\ cqlMatches(Tail(term), Tail(value))

\* Items FOLIO returns for effectiveCallNumberComponents.callNumber=="cn",
\* cn as wildcarded by getItemsForCN, in the server's order.
itemsWithCN(cn) == SelectSeq(items, LAMBDA it : cqlMatches(wildcardedCN(cn), it.cn))

\* Items FOLIO returns for effectiveShelvingOrder>="eso1" AND
\* effectiveShelvingOrder<="eso2", in the server's order. Shelving-order
\* values are ranked 1, 2, ...; 0 is the empty value, below every other.
itemsInRange(eso1, eso2) == SelectSeq(items, LAMBDA it : eso1 <= it.eso /\ it.eso <= eso2)

\* totalRecords of the range query: the items above and the bulk of further
\* records (never fetched in this specification) shelved at bulkESO.
rangeTotal(eso1, eso2) ==
  Len(itemsInRange(eso1, eso2)) + (IF eso1 <= bulkESO /\ bulkESO <= eso2 THEN bulk ELSE 0)

\* findItemWithEffectiveShelvingOrder: the loop from index i on; quit = TRUE
\* stands for the call of quit('Cannot search using call number ...').
RECURSIVE findItemWithEffectiveShelvingOrderFrom(_, _)
findItemWithEffectiveShelvingOrderFrom(itemList, i) ==
  IF i <= Len(itemList)
  THEN IF itemList[i].eso # 0
       THEN [quit |-> FALSE, eso |-> itemList[i].eso]
       ELSE findItemWithEffectiveShelvingOrderFrom(itemList, i + 1)
  ELSE [quit |-> TRUE, eso |-> 0]

\* The value of the first item of the list, whatever it is.
findItemWithEffectiveShelvingOrder_firstItem(itemList) ==
  IF Len(itemList) = 0 THEN [quit |-> TRUE, eso |-> 0]
  ELSE [quit |-> FALSE, eso |-> itemList[1].eso]

findItemWithEffectiveShelvingOrder(itemList) ==
  findItemWithEffectiveShelvingOrderFrom(itemList, 1)

\* r1.effectiveShelvingOrder.localeCompare(r2.effectiveShelvingOrder) <= 0
compareESO(r1, r2) == r1.eso <= r2.eso

\* Array.prototype.sort with that comparison (a stable sort): insertion of
\* each record behind the records that do not come after it.
RECURSIVE insertSorted(_, _)
insertSorted(sorted, r) ==
  IF Len(sorted) = 0 THEN <<r>>
  ELSE IF compareESO(sorted[Len(sorted)], r) THEN Append(sorted, r)
  ELSE Append(insertSorted(SubSeq(sorted, 1, Len(sorted) - 1), r), sorted[Len(sorted)])

RECURSIVE sortLoop(_, _)
sortLoop(recs, sorted) ==
  IF Len(recs) = 0 THEN sorted ELSE sortLoop(Tail(recs), insertSorted(sorted, Head(recs)))

\* The records left in the order of their arrival.
sortByShelvingOrder_none(recs) == recs

sortByShelvingOrder(recs) == sortLoop(recs, <<>>)

\* writeResultsSheet(records): the sheet it creates and fills.
writeResultsSheet(recs) ==
  LET enabledFields == getEnabledFields
  IN  setValues(createResultsSheet(Len(recs), headingsOf(enabledFields)), 2,
                [i \in 1..Len(recs) |->
                   [j \in 1..Len(enabledFields) |-> getValue(enabledFields[j], recs[i])]])

needLocation == locationId # "Any"

\* The error is noted and the operation carries on where it was.
Quit_carryOn(why) == pc' = pc /\ error' = why

\* quit(why, details): the alert, then the exception that ends the execution.
Quit(why) == pc' = "quit" /\ error' = why

\* The two calls of findItemWithEffectiveShelvingOrder and what follows them
\* up to the next request, for the given lists.
resolveBoundaries(firstList, lastList) ==
  LET f == findItemWithEffectiveShelvingOrder(firstList)
      l == findItemWithEffectiveShelvingOrder(lastList)
  IN  /\ firstItemList' = firstList
      /\ lastItemList' = lastList
      /\ firstESO' = f.eso
      /\ lastESO' = IF f.quit THEN lastESO ELSE l.eso
      /\ IF f.quit \/ l.quit
         THEN Quit("Cannot search using call number")
         ELSE pc' = "rangeProbe" /\ error' = error

\* writeResultsSheet(records) as the last step of a search: it ends on the
\* TypeError of restoreFieldSelections, or writes the sheet.
writeResultsSheetStep(recs) ==
  IF restoreThrows
  THEN Quit("TypeError") /\ UNCHANGED sheet
  ELSE sheet' = writeResultsSheet(recs) /\ pc' = "done" /\ error' = error

\* What the caller of getRecordsForQuery does with the records returned, up
\* to its next request or its end.
afterRecords(recs) ==
  IF caller = "firstCN"
  THEN \* let firstItemList = getItemsForCN(firstCN, ...); getItemsForCN(lastCN, ...)
       /\ firstItemList' = recs
       /\ caller' = "lastCN"
       /\ pc' = "cnProbe"
       /\ UNCHANGED <<lastItemList, firstESO, lastESO, sheet, error>>
  ELSE IF caller = "lastCN"
  THEN \* let lastItemList = getItemsForCN(lastCN, ...).reverse()
       /\ resolveBoundaries(firstItemList, Reverse(recs))
       /\ caller' = "range"
       /\ UNCHANGED sheet
  ELSE IF caller = "range"
  THEN \* writeResultsSheet(sortByShelvingOrder(records))
       /\ writeResultsSheetStep(sortByShelvingOrder(recs))
       /\ UNCHANGED <<firstItemList, lastItemList, firstESO, lastESO, caller>>
  ELSE IF caller = "single"
  THEN \* showItemsForCallNumber: writeResultsSheet(getItemsForCN(cn, locationId))
       /\ writeResultsSheetStep(recs)
       /\ UNCHANGED <<firstItemList, lastItemList, firstESO, lastESO, caller>>
  ELSE \* getRecordsForQuery on its own
       /\ pc' = "done"
       /\ UNCHANGED <<firstItemList, lastItemList, firstESO, lastESO, caller, sheet, error>>

SearchInputsUnchanged ==
  UNCHANGED <<firstCN, lastCN, locationId, items, bulk, bulkESO,
              barcodes, known, row, batchIndex, result>>

\* One turn of the loop of getRecordsForQuery whose request is answered
\* with a body; the last turn runs on into the caller.
fetchPage ==
  /\ pc = "pages"
  /\ Len(requests) < MaxRequests
  /\ \E got \in {"items", "empty", "none"} :
       /\ got = "empty" => emptyPagesSoFar < MaxEmptyPages /\ offset < Len(matching)
       /\ requests' = Append(requests,
                             Request("page", caller, offset, firstESO, lastESO, 0, got))
       /\ IF truthyItems(got)
          THEN LET recs == records \o (IF got = "items"
                                       THEN pageAt(matching, offset, pageSize) ELSE <<>>)
               IN  /\ records' = recs
                   /\ offset' = offset + pageSize
                   /\ IF loopContinues(offset + pageSize, totalRecords)
                      THEN /\ pc' = "pages"
                           /\ UNCHANGED <<firstItemList, lastItemList, firstESO, lastESO,
                                          caller, sheet, error>>
                      ELSE afterRecords(recs)
          ELSE /\ Quit("Failed to get complete set of records")
               /\ UNCHANGED <<records, offset, firstItemList, lastItemList,
                              firstESO, lastESO, caller, sheet>>
  /\ UNCHANGED <<matching, totalRecords, expected>>
  /\ SearchInputsUnchanged
  /\ CredsUnchanged

\* A request of the search on which fetchJSON quits.
searchRequestFails ==
  /\ pc \in {"cnProbe", "pages", "rangeProbe", "locations"}
  /\ \E response \in FetchFailures : Quit(fetchJSONError(response))
  /\ requests' = Append(requests,
       Request(IF pc = "pages" THEN "page" ELSE pc, caller, offset, firstESO, lastESO,
               0, "failure"))
  /\ UNCHANGED <<matching, totalRecords, offset, records, caller, expected, sheet,
                 firstItemList, lastItemList, firstESO, lastESO>>
  /\ SearchInputsUnchanged
  /\ CredsUnchanged

\* The choice made on an empty last call number only.
getItemsInCallNumberRange_emptyOnly ==
  /\ pc = "getItemsInCallNumberRange"
  /\ caller' = IF lastCN = <<>> THEN "single" ELSE "firstCN"
  /\ pc' = "cnProbe"
  /\ UNCHANGED <<matching, totalRecords, offset, records, requests, expected, sheet,
                 firstItemList, lastItemList, firstESO, lastESO, error>>
  /\ SearchInputsUnchanged
  /\ CredsUnchanged

\* getItemsInCallNumberRange(firstCN, lastCN, locationId), called by the
\* call-numbers form: the choice between the two searches.
getItemsInCallNumberRange ==
  /\ pc = "getItemsInCallNumberRange"
  /\ caller' = IF lastCN = <<>> \/ firstCN = lastCN THEN "single" ELSE "firstCN"
  /\ pc' = "cnProbe"
  /\ UNCHANGED <<matching, totalRecords, offset, records, requests, expected, sheet,
                 firstItemList, lastItemList, firstESO, lastESO, error>>
  /\ SearchInputsUnchanged
  /\ CredsUnchanged

\* Every record is taken to be there to fetch, whatever the count.
foundRecords_always(total) == TRUE

\* The test of getItemsForCN on the count its preliminary query returned.
foundRecords(total) == total > 0

\* totalRecords of the preliminary query of getItemsForCN: the items listed
\* and, in the search for a single call number, the bulk of further records
\* catalogued under it.
cnTotal(list) == Len(list) + (IF caller = "single" THEN bulk ELSE 0)

\* getItemsForCN(cn, locationId) up to the answer of its preliminary query
\* (limit 0), cn being firstCN or lastCN.
getItemsForCN ==
  /\ pc = "cnProbe"
  /\ LET cn == IF caller = "lastCN" THEN lastCN ELSE firstCN
         list == itemsWithCN(cn)
         total == cnTotal(list)
     IN  /\ requests' = Append(requests,
                               Request("cnProbe", caller, 0, 0, 0, total, "items"))
         /\ matching' = list
         /\ totalRecords' = total
         /\ offset' = 0
         /\ records' = <<>>
         /\ IF foundRecords(total)
            THEN pc' = "pages" /\ error' = error
            ELSE IF needLocation
            THEN pc' = "locations" /\ error' = error
            ELSE Quit("Could not find an item with call number")
  /\ UNCHANGED <<caller, expected, sheet, firstItemList, lastItemList, firstESO, lastESO>>
  /\ SearchInputsUnchanged
  /\ CredsUnchanged

\* getLocationsList() answered, in the branches that look up the name of the
\* location for their message, and the quit that follows.
getLocationsList ==
  /\ pc = "locations"
  /\ requests' = Append(requests, Request("locations", caller, 0, 0, 0, 0, "items"))
  /\ IF caller = "range"
     THEN Quit("Could not find any items for this call number range")
     ELSE Quit("Could not find an item with call number")
  /\ UNCHANGED <<matching, totalRecords, offset, records, caller, expected, sheet,
                 firstItemList, lastItemList, firstESO, lastESO>>
  /\ SearchInputsUnchanged
  /\ CredsUnchanged

rangeProbes == SelectSeq(requests, LAMBDA r : r.kind = "rangeProbe" /\ r.got # "failure")

\* The position in showItemsForCallNumberRange: the range query that came back
\* empty was the one before the swap.
beforeSwap_always == TRUE

beforeSwap == Len(rangeProbes) = 0

\* The range query with limit 0 answered (the first one or the one after the
\* swap), and showItemsForCallNumberRange up to its next request.
rangeProbe ==
  /\ pc = "rangeProbe"
  /\ LET total == rangeTotal(firstESO, lastESO)
     IN  /\ requests' = Append(requests,
                               Request("rangeProbe", caller, 0, firstESO, lastESO, total, "items"))
         /\ expected' = total
         /\ IF total > 0
            THEN \* the capacity test, then getRecordsForQuery
                 /\ IF exceedsCapacity(total, Len(getEnabledFields))
                    THEN /\ Quit("This query exceeds the maximum number of results that can be written")
                         /\ UNCHANGED <<matching, totalRecords, offset, records>>
                    ELSE /\ pc' = "pages" /\ error' = error
                         /\ matching' = itemsInRange(firstESO, lastESO)
                         /\ totalRecords' = total
                         /\ offset' = 0
                         /\ records' = <<>>
                 /\ UNCHANGED <<firstItemList, lastItemList, firstESO, lastESO>>
            ELSE IF beforeSwap
            THEN \* swap the roles of the two lists and try once more
                 /\ resolveBoundaries(Reverse(lastItemList), Reverse(firstItemList))
                 /\ UNCHANGED <<matching, totalRecords, offset, records>>
            ELSE /\ IF needLocation
                    THEN pc' = "locations" /\ error' = error
                    ELSE Quit("Could not find any items for this call number range")
                 /\ UNCHANGED <<matching, totalRecords, offset, records,
                                firstItemList, lastItemList, firstESO, lastESO>>
  /\ UNCHANGED <<caller, sheet>>
  /\ SearchInputsUnchanged
  /\ CredsUnchanged

(***************************************************************************)
(* Initial states.                                                         *)
(***************************************************************************)

NoResult == [ok |-> FALSE, totalRecords |-> 0, items |-> {}]

\* Credentials as left by an earlier successful login.
LoggedIn ==
  /\ boffo_folio_url = Https \o <<"a">>
  /\ boffo_folio_tenant_id = <<"t", "1">>
  /\ boffo_folio_api_token = <<"k1">>
  /\ dialog = ClosedDialog
  /\ last = NoInvocation

\* No field-selection function has run.
FieldsFormIdle == selections = <<>> /\ fieldsArray = fields

\* No helper function is called on its own.
NoHelperCall == args = <<>> /\ returned = <<>>

\* The stored field selections: never saved, or saved from the form.
StoredSelections == {<<>>} \cup {storedFields(sel) : sel \in FormSelections}

LookupIdle ==
  /\ barcodes = <<>>
  /\ known = {}
  /\ sheet = <<>>
  /\ row = 0
  /\ batchIndex = 0
  /\ result = NoResult

RangeIdle ==
  /\ firstCN = <<>>
  /\ lastCN = <<>>
  /\ locationId = "Any"
  /\ items = <<>>
  /\ bulk = 0
  /\ bulkESO = 0
  /\ firstItemList = <<>>
  /\ lastItemList = <<>>
  /\ firstESO = 0
  /\ lastESO = 0
  /\ expected = 0

PageIdle ==
  /\ matching = <<>>
  /\ totalRecords = 0
  /\ offset = 0
  /\ records = <<>>
  /\ caller = ""
  /\ requests = <<>>

(***************************************************************************)
(* Specification of the barcode lookup.                                    *)
(***************************************************************************)

\* Barcodes are numbered 1..NumBarcodes.
NumBarcodes == 2

\* The selection holds up to MaxFullBatches runs of barcodeSliceSize equal
\* barcodes followed by up to MaxTail further barcodes.
MaxFullBatches == 1

MaxTail == 2

Barcodes == 1..NumBarcodes

RECURSIVE Runs(_)
Runs(heads) ==
  IF Len(heads) = 0 THEN <<>>
  ELSE Rep(heads[1], barcodeSliceSize) \o Runs(Tail(heads))

Selections ==
  {Runs(heads) \o tail : heads \in SeqsUpTo(Barcodes, MaxFullBatches),
                         tail \in SeqsUpTo(Barcodes, MaxTail)}

InitLookup ==
  /\ LoggedIn
  /\ FieldsFormIdle
  /\ NoHelperCall
  /\ boffo_fields \in {<<>>, storedFields([i \in 1..Len(fields) |-> i # 2])}
  /\ barcodes \in Selections
  /\ known \in SUBSET Barcodes
  /\ sheet = <<>>
  /\ row = 0
  /\ batchIndex = 0
  /\ result = NoResult
  /\ RangeIdle
  /\ PageIdle
  /\ pc = "lookUpBarcodes"
  /\ error = ""

NextLookup == lookUpBarcodes \/ lookUpBatch \/ lookUpBatchFails

SpecLookup == InitLookup /\ [][NextLookup]_vars

\* C1 (as claimed): when a barcode lookup has run to its end, the results
\* sheet holds exactly one row per selected barcode, and the i-th row below the
\* heading carries the i-th selected barcode in its first cell.
C1_OneRowPerBarcodeInOrder ==
  (pc = "done" /\ Len(barcodes) > 0) =>
     /\ Len(sheet) = Len(barcodes) + 1
     /\ \A i \in 1..Len(barcodes) :
          /\ sheet[i + 1] # <<>>
          /\ sheet[i + 1][1] = <<"Barcode", barcodes[i]>>

\* C8 (as claimed): when a barcode lookup has run to its end, every selected
\* barcode that FOLIO does not know has its placeholder row, the barcode
\* followed by empty cells only: the sheet holds as many such rows for the
\* barcode as the selection holds occurrences of it.
C8_UnknownBarcodesHavePlaceholderRows ==
  pc = "done" =>
    \A i \in 1..Len(barcodes) :
      barcodes[i] \notin known =>
        LET b == barcodes[i]
            placeholder == [c \in 1..Len(sheet[1]) |->
                              IF c = 1 THEN <<"Barcode", b>> ELSE <<"", 0>>]
        IN  Cardinality({r \in 2..Len(sheet) : sheet[r] = placeholder})
              = Cardinality({k \in 1..Len(barcodes) : barcodes[k] = b})

(***************************************************************************)
(* Specification of the credential session.                                *)
(***************************************************************************)

\* Nothing stored, nothing running.
ProgramIdle ==
  /\ boffo_folio_url = <<>>
  /\ FieldsFormIdle
  /\ boffo_folio_tenant_id = <<>>
  /\ boffo_folio_api_token = <<>>
  /\ boffo_fields = <<>>
  /\ dialog = ClosedDialog
  /\ last = NoInvocation
  /\ LookupIdle
  /\ RangeIdle
  /\ PageIdle
  /\ pc = "idle"
  /\ error = ""

InitCreds == ProgramIdle /\ NoHelperCall

\* Credentials stored, no operation running.
OperationsIdle ==
  /\ LoggedIn
  /\ FieldsFormIdle
  /\ boffo_fields = <<>>
  /\ LookupIdle
  /\ RangeIdle
  /\ PageIdle
  /\ pc = "idle"
  /\ error = ""

NextCreds ==
  \/ \E funcToCall \in Operations : withCredentials(funcToCall)
  \/ menuItemGetCredentials
  \/ cancelForm
  \/ submitForm
  \/ callBoffoFunction
  \/ menuItemClearToken
  \/ onInstall

SpecCreds == InitCreds /\ [][NextCreds]_vars

\* C2 (as claimed): after a call of withCredentials the wrapped function has
\* been executed exactly if URL, tenant id and token were all stored and the
\* token check was answered with a status below 400; in every other case it
\* has not been executed and the credentials dialog has been requested.
C2_ExecutedIffValidElseDialog ==
  last.handler = "withCredentials" =>
    LET valid == /\ last.before.folioUrl # <<>>
                 /\ last.before.tenantId # <<>>
                 /\ last.before.token # <<>>
                 /\ ~last.check.threw
                 /\ last.check.code < 400
    IN  /\ valid <=> last.executed = last.callAfterSuccess
        /\ ~valid => (last.executed = "" /\ last.requested /\ dialog.open)

\* C3: after a login attempt the stored credentials are those of the attempt
\* (token of the answer, URL as used for the request, tenant id) when the
\* answer had a status below 300 and an x-okapi-token header, and are what
\* they were before the attempt on every other outcome.
C3_StoredOnlyWhenTokenObtained ==
  last.handler = "saveFolioInfo" =>
    IF ~last.login.threw /\ last.login.code < 300 /\ last.login.hasToken
    THEN /\ boffo_folio_api_token = last.login.token
         /\ boffo_folio_url =
              (IF last.url[Len(last.url)] = "/"
               THEN SubSeq(last.url, 1, Len(last.url) - 1) ELSE last.url)
         /\ boffo_folio_tenant_id = last.tenantId
    ELSE /\ boffo_folio_api_token = last.before.token
         /\ boffo_folio_url = last.before.folioUrl
         /\ boffo_folio_tenant_id = last.before.tenantId

\* A login that replaced all three stored values.
C3_Witness ==
  /\ last.handler = "saveFolioInfo"
  /\ last.login.code < 300 /\ last.login.hasToken
  /\ last.before.token # <<>>
  /\ boffo_folio_api_token # last.before.token
  /\ boffo_folio_url # last.before.folioUrl
  /\ boffo_folio_tenant_id # last.before.tenantId
  /\ last.url[Len(last.url)] = "/"

\* C11 (as claimed): the success handler of the credentials form is handed a
\* function to call (callBoffoFunction) only by a saveFolioInfo whose login
\* obtained a token, and a saveFolioInfo whose login did not obtain one
\* executes no operation itself.
C11_DeferredOnlyAfterTokenObtained ==
  last.handler = "saveFolioInfo" =>
    LET obtained == ~last.login.threw /\ last.login.code < 300 /\ last.login.hasToken
    IN  /\ last.next # "" => obtained
        /\ ~obtained => last.executed = ""

\* C12 (as claimed): saveFolioInfo returns true only if the login of that
\* call was answered with a status below 300 and a token, which it stored.
C12_TrueOnlyIfLoginSucceeded ==
  (last.handler = "saveFolioInfo" /\ last.ret = "true") =>
     /\ ~last.login.threw
     /\ last.login.code < 300
     /\ last.login.hasToken
     /\ boffo_folio_api_token = last.login.token

\* C13: no stored property ever holds a symbol of a user name or password
\* given to a login; the URL property holds nothing but a URL given to a
\* login or preset by an administrator, the tenant-id property nothing but
\* such a tenant id, the token property nothing but a token issued by FOLIO,
\* and the fields property nothing but field names with their flags.
C13_UserAndPasswordNeverStored ==
  LET typed == {u[j] : u \in Users \cup Passwords, j \in 1..1}
      clean(v) == \A i \in 1..Len(v) : v[i] \notin typed
  IN  /\ clean(boffo_folio_url)
      /\ clean(boffo_folio_tenant_id)
      /\ clean(boffo_folio_api_token)
      /\ boffo_folio_url \in {<<>>} \cup Urls \cup {stripTrailingSlash(u) : u \in Urls}
      /\ boffo_folio_tenant_id \in {<<>>} \cup TenantIds
      /\ boffo_folio_api_token \in {<<>>} \cup Tokens
      /\ \A i \in 1..Len(boffo_fields) :
           /\ DOMAIN boffo_fields[i] = {"name", "enabled"}
           /\ boffo_fields[i].name \in {fields[k].name : k \in 1..Len(fields)}
           /\ boffo_fields[i].enabled \in BOOLEAN

\* A login with user name and password that obtained a token: the three
\* values stored are the URL, the tenant id and the token.
C13_Witness ==
  /\ last.handler = "saveFolioInfo"
  /\ last.user \in Users
  /\ last.password \in Passwords
  /\ last.login.hasToken /\ last.login.code < 300
  /\ boffo_folio_api_token = last.login.token
  /\ boffo_folio_tenant_id = last.tenantId
  /\ boffo_folio_url # <<>>

(***************************************************************************)
(* Specification of getRecordsForQuery on its own.                         *)
(***************************************************************************)

\* Totals up to MaxTotal that lie at or next to a multiple of the page size,
\* or in the middle between two.
MaxTotal == 1100

Totals == {t \in 1..MaxTotal : t % pageSize \in {0, 1, 50, pageSize - 1}}

InitPages ==
  /\ LoggedIn
  /\ FieldsFormIdle
  /\ NoHelperCall
  /\ boffo_fields = <<>>
  /\ LookupIdle
  /\ RangeIdle
  /\ totalRecords \in Totals
  /\ matching = [i \in 1..totalRecords |-> i]
  /\ offset = 0
  /\ records = <<>>
  /\ caller = "getRecordsForQuery"
  /\ requests = <<>>
  /\ pc = "pages"
  /\ error = ""

NextPages == fetchPage \/ searchRequestFails

SpecPages == InitPages /\ [][NextPages]_vars /\ WF_vars(NextPages)

\* C5: getRecordsForQuery comes to an end, and when it returns after a run in
\* which every page request was answered with the records FOLIO holds at that
\* offset, the array returned holds exactly the totalRecords records of the
\* query, each once, in the order of their offsets.
C5_ReturnsAllRecordsInOffsetOrder ==
  /\ []((/\ pc = "done"
         /\ caller = "getRecordsForQuery"
         /\ \A i \in 1..Len(requests) : requests[i].got = "items")
        => records = [k \in 1..totalRecords |-> k])
  /\ <>(pc \in {"done", "quit"})

\* A query of 1100 records, above 1000 and a multiple of the page size,
\* returned in full.
C5_Witness ==
  /\ pc = "done"
  /\ caller = "getRecordsForQuery"
  /\ totalRecords = 1100
  /\ Len(records) = 1100
  /\ records[1001] = 1001
  /\ \A i \in 1..Len(requests) : requests[i].got = "items"

\* C6 (as claimed): getRecordsForQuery never returns after a page request
\* below totalRecords was answered without records, and never returns fewer
\* records than totalRecords.
C6_EmptyPageIsFatal ==
  (pc = "done" /\ caller = "getRecordsForQuery") =>
     /\ \A i \in 1..Len(requests) :
          requests[i].offset < totalRecords => requests[i].got = "items"
     /\ Len(records) >= totalRecords

(***************************************************************************)
(* Specification of the call-number search.                                *)
(***************************************************************************)

\* FOLIO holds up to MaxItems items, with shelving-order values 0 (empty),
\* 1 .. MaxESO and call numbers "A" or "B".
MaxItems == 3

MaxESO == 3

ItemLists ==
  UNION {{[i \in 1..k |-> [barcode |-> i, id |-> i, cn |-> c[i], eso |-> e[i]]] :
            c \in [1..k -> {<<"A">>, <<"B">>}], e \in [1..k -> 0..MaxESO]} : k \in 0..MaxItems}

InitRange ==
  /\ LoggedIn
  /\ FieldsFormIdle
  /\ NoHelperCall
  /\ LookupIdle
  /\ PageIdle
  /\ firstCN = <<"A">>
  /\ lastCN = <<"B">>
  /\ items \in ItemLists
  /\ \/ \* a collection of these items only, searched at any or at one location
        /\ locationId \in {"Any", "L1"}
        /\ boffo_fields = <<>>
        /\ bulk = 0 /\ bulkESO = 0
     \/ \* a collection that also holds, shelved at 1, one record less than
        \* the sheet has room for with the columns enabled
        /\ locationId = "Any"
        /\ boffo_fields \in {<<>>, storedFields([i \in 1..Len(fields) |-> i = 1])}
        /\ bulk = maxRows(Len(getEnabledFields)) - 1 /\ bulkESO = 1
  /\ firstItemList = <<>>
  /\ lastItemList = <<>>
  /\ firstESO = 0
  /\ lastESO = 0
  /\ expected = 0
  /\ pc = "getItemsInCallNumberRange"
  /\ error = ""

NextRange ==
  \/ getItemsInCallNumberRange
  \/ getItemsForCN
  \/ fetchPage
  \/ getLocationsList
  \/ rangeProbe
  \/ searchRequestFails

SpecRange == InitRange /\ [][NextRange]_vars

C7_CapacityErrorBeforeAnyPage ==
  \A i \in 1..Len(requests) :
    (/\ requests[i].kind = "rangeProbe"
     /\ requests[i].total > (10000000 \div Len(getEnabledFields)) - 1) =>
       /\ pc = "quit"
       /\ error = "This query exceeds the maximum number of results that can be written"
       /\ \A j \in 1..Len(requests) :
            ~(requests[j].kind = "page" /\ requests[j].of = "range")
       /\ sheet = <<>>

\* A range of exactly one record more than fits, with a single enabled
\* column, refused.
C7_Witness ==
  /\ pc = "quit"
  /\ error = "This query exceeds the maximum number of results that can be written"
  /\ Len(getEnabledFields) = 1
  /\ expected = 10000000
  /\ sheet = <<>>
  /\ requests[Len(requests)].kind = "rangeProbe"

\* C9: once both boundary lists are fetched, each bound of the range is the
\* shelving-order value of the first item of its list that has one; when one
\* of the lists has no such item the search has ended with the error 'Cannot
\* search using call number' and no range query was sent; and no range query
\* is ever sent with an empty bound.
C9_FirstNonEmptyShelvingOrder ==
  LET firstWithValue(list) ==
        LET idx == {i \in 1..Len(list) : list[i].eso # 0}
        IN  IF idx = {} THEN 0
            ELSE list[CHOOSE i \in idx : \A j \in idx : i <= j].eso
      ofRange(r) == r.kind = "rangeProbe" \/ (r.kind = "page" /\ r.of = "range")
  IN  /\ caller = "range" =>
            IF firstWithValue(firstItemList) = 0 \/ firstWithValue(lastItemList) = 0
            THEN /\ pc = "quit"
                 /\ error = "Cannot search using call number"
                 /\ \A i \in 1..Len(requests) : ~ofRange(requests[i])
            ELSE /\ firstESO = firstWithValue(firstItemList)
                 /\ lastESO = firstWithValue(lastItemList)
      /\ \A i \in 1..Len(requests) :
            ofRange(requests[i]) => (requests[i].eso1 # 0 /\ requests[i].eso2 # 0)
      /\ error = "Cannot search using call number" =>
            (firstWithValue(firstItemList) = 0 \/ firstWithValue(lastItemList) = 0)

\* A range search in which the first item found for firstCN had no
\* shelving-order value and the value of a later item served as the bound.
C9_Witness ==
  /\ pc = "done"
  /\ caller = "range"
  /\ Len(SelectSeq(requests, LAMBDA r : r.kind = "rangeProbe")) = 1
  /\ Len(firstItemList) = 2
  /\ firstItemList[1].eso = 0
  /\ firstESO = firstItemList[2].eso
  /\ firstESO # 0
  /\ Len(sheet) >= 2

\* C10: below the heading, the rows written by a range search follow each
\* other in ascending order of the shelving-order value of their items.
C10_RowsAscendingByShelvingOrder ==
  (pc = "done" /\ caller = "range") =>
     /\ Len(sheet) = Len(records) + 1
     /\ \A i \in 2..(Len(sheet) - 1) :
          items[sheet[i][1][2]].eso <= items[sheet[i + 1][1][2]].eso

\* Three records of which FOLIO returned the one shelved last first: it is
\* written in the last row.
C10_Witness ==
  /\ pc = "done"
  /\ caller = "range"
  /\ Len(records) = 3
  /\ records[1].eso > records[2].eso
  /\ records[1].eso > records[3].eso
  /\ items[sheet[2][1][2]].eso < items[sheet[4][1][2]].eso
  /\ sheet[4][1][2] = records[1].barcode

(***************************************************************************)
(* Specification of the search for a single call number.                   *)
(***************************************************************************)

\* The characters call numbers are written with here, and their longest
\* length.
CNChars == {"G", "1", " ", "."}

MaxCNLen == 6

\* What a user can type: it starts with a letter and does not end with a
\* space.
CallNumbers ==
  {cn \in SeqsUpTo(CNChars, MaxCNLen) :
     Len(cn) > 0 /\ cn[1] \in Letters /\ cn[Len(cn)] # " "}

\* The places of a call number where a cutter (a period, a letter, a digit)
\* starts.
cutters(cn) ==
  {i \in 1..Len(cn) : /\ cn[i] = "."
                      /\ i + 2 <= Len(cn)
                      /\ cn[i + 1] \in Letters
                      /\ cn[i + 2] \in Digits}

\* The same call number written with a space before one of its cutters
\* where it has none, or without the spaces before one where it has some
\* ("adding or missing spaces (e.g., GV199 .F3 versus GV199.F3)").
spaceToggled(cn) ==
  {IF i > 1 /\ cn[i - 1] = " "
   THEN LET k == CHOOSE k \in 1..i : /\ \A n \in k..(i - 1) : cn[n] = " "
                                     /\ (k = 1 \/ cn[k - 1] # " ")
        IN  SubSeq(cn, 1, k - 1) \o SubSeq(cn, i, Len(cn))
   ELSE SubSeq(cn, 1, i - 1) \o <<" ">> \o SubSeq(cn, i, Len(cn)) : i \in cutters(cn)}

\* FOLIO holds nothing, or one item catalogued under the call number as
\* typed, under a space-toggled writing of it, or under another call number.
Catalogued(cn) ==
  {<<>>} \cup {<<[barcode |-> 1, id |-> 1, cn |-> c, eso |-> 1]>> :
                 c \in {cn, <<"B">>} \cup spaceToggled(cn)}

InitSingle ==
  /\ LoggedIn
  /\ FieldsFormIdle
  /\ NoHelperCall
  /\ boffo_fields = <<>>
  /\ LookupIdle
  /\ PageIdle
  /\ firstCN \in CallNumbers
  /\ lastCN = <<>>
  /\ locationId \in {"Any", "L1"}
  /\ items \in Catalogued(firstCN)
  /\ bulk = 0 /\ bulkESO = 0
  /\ firstItemList = <<>>
  /\ lastItemList = <<>>
  /\ firstESO = 0
  /\ lastESO = 0
  /\ expected = 0
  /\ pc = "getItemsInCallNumberRange"
  /\ error = ""

NextSingle ==
  \/ getItemsInCallNumberRange
  \/ getItemsForCN
  \/ fetchPage
  \/ getLocationsList
  \/ searchRequestFails

SpecSingle == InitSingle /\ [][NextSingle]_vars

\* C14 (as claimed): when FOLIO has no item under the call number as typed
\* but has one under a space-toggled writing of it, the search does not end
\* with 'Could not find an item with call number', and when it has run to
\* its end with every page answered in full the item is on the sheet.
C14_SpaceToggledVariantIsFound ==
  LET exact   == {i \in 1..Len(items) : items[i].cn = firstCN}
      variant == {i \in 1..Len(items) : items[i].cn \in spaceToggled(firstCN)}
  IN  (caller = "single" /\ exact = {} /\ variant # {}) =>
        /\ pc # "locations"
        /\ error # "Could not find an item with call number"
        /\ (pc = "done" /\ \A r \in 1..Len(requests) : requests[r].got = "items") =>
              \A i \in variant :
                \E r \in 2..Len(sheet) : sheet[r][1] = <<"Barcode", items[i].barcode>>

\* C15 (as claimed): in the call number a search has put into its query, the
\* spaces between the leading letters and the digits that follow them are
\* removed and everything else is kept, whether or not anything follows the
\* digits; a call number not of that form is kept as it is.
C15_ClassSpaceRemoved ==
  (caller = "single" /\ Len(requests) > 0) =>
    LET cn == firstCN
        ofForm(a, b) == /\ \A i \in 1..a : cn[i] \in Letters
                        /\ \A i \in (a + 1)..b : cn[i] = " "
                        /\ cn[b + 1] \in Digits
        splits == {ab \in (1..Len(cn)) \X (1..Len(cn)) :
                     ab[1] < ab[2] /\ ab[2] < Len(cn) /\ ofForm(ab[1], ab[2])}
    IN  IF splits = {}
        THEN removeClassSpace(cn) = cn
        ELSE \A ab \in splits :
               removeClassSpace(cn) = SubSeq(cn, 1, ab[1]) \o SubSeq(cn, ab[2] + 1, Len(cn))

withSelections(sel) == [i \in 1..Len(fields) |-> [fields[i] EXCEPT !.enabled = sel[i]]]

\* No operation is running: a function of the field selections, or the start
\* of an operation, is what runs next.
betweenOperations == pc \in {"idle", "saveFieldSelections", "menuItemSelectFields"}

FieldsUnchanged ==
  /\ UNCHANGED <<propVars, callVars, credVars, lookupVars, rangeVars, pageVars>>

\* saveFieldSelections(selections), called with any array of flags of the
\* length of "fields".
saveFieldSelections ==
  /\ betweenOperations
  /\ \E sel \in [1..Len(fields) -> BOOLEAN] :
       /\ selections' = sel
       /\ fieldsArray' = withSelections(sel)
       /\ boffo_fields' = storedFields(sel)
  /\ pc' = "saveFieldSelections"
  /\ error' = ""
  /\ FieldsUnchanged

\* menuItemSelectFields(): restoreFieldSelections() in a new execution, then
\* the form. On the TypeError the array is left as restored so far.
menuItemSelectFields ==
  /\ betweenOperations
  /\ fieldsArray' = restoreFieldSelections
  /\ error' = IF restoreThrows THEN "TypeError" ELSE ""
  /\ pc' = "menuItemSelectFields"
  /\ UNCHANGED <<boffo_fields, selections>>
  /\ FieldsUnchanged

\* The user starts a barcode lookup or a call-number search.
startOperation ==
  /\ betweenOperations
  /\ pc' \in {"lookUpBarcodes", "getItemsInCallNumberRange"}
  /\ error' = ""
  /\ UNCHANGED fieldVars
  /\ FieldsUnchanged

\* The names of the lists of fields other revisions of the program stored: a
\* field added since, a field removed since (last or in the middle), two
\* fields that changed places.
OtherRevisions ==
  {<<"Barcode", "Title">>,
   <<"Barcode", "Title", "Call number", "Copy number">>,
   <<"Barcode", "Copy number", "Title", "Call number">>,
   <<"Barcode", "Call number", "Title">>}

\* The lists stored from the form of this or another revision: Barcode is
\* required in each and stored as enabled.
StoredRevisions ==
  UNION {{[i \in 1..Len(names) |-> [name |-> names[i], enabled |-> flags[i]]] :
            flags \in {f \in [1..Len(names) -> BOOLEAN] : f[1]}} :
         names \in OtherRevisions \cup {[i \in 1..Len(fields) |-> fields[i].name]}}

InitFields ==
  /\ LoggedIn
  /\ FieldsFormIdle
  /\ NoHelperCall
  /\ boffo_fields \in {<<>>} \cup StoredRevisions
  /\ barcodes = <<1, 2>>
  /\ known = {1}
  /\ sheet = <<>>
  /\ row = 0
  /\ batchIndex = 0
  /\ result = NoResult
  /\ firstCN = <<"A">>
  /\ lastCN \in {<<>>, <<"B">>}
  /\ locationId = "Any"
  /\ items = <<[barcode |-> 1, id |-> 1, cn |-> <<"A">>, eso |-> 1],
               [barcode |-> 2, id |-> 2, cn |-> <<"B">>, eso |-> 2]>>
  /\ bulk = 0 /\ bulkESO = 0
  /\ firstItemList = <<>>
  /\ lastItemList = <<>>
  /\ firstESO = 0
  /\ lastESO = 0
  /\ expected = 0
  /\ PageIdle
  /\ pc = "idle"
  /\ error = ""

NextFields ==
  \/ saveFieldSelections
  \/ menuItemSelectFields
  \/ startOperation
  \/ lookUpBarcodes
  \/ lookUpBatch
  \/ lookUpBatchFails
  \/ getItemsInCallNumberRange
  \/ getItemsForCN
  \/ fetchPage
  \/ rangeProbe
  \/ searchRequestFails

SpecFields == InitFields /\ [][NextFields]_vars

\* C17 (as claimed): the Barcode field is enabled in the "fields" array a
\* field-selection function leaves behind and in the stored selections.
C17_BarcodeAlwaysEnabled ==
  /\ \A i \in 1..Len(fieldsArray) :
       fieldsArray[i].name = "Barcode" => fieldsArray[i].enabled
  /\ \A j \in 1..Len(boffo_fields) :
       boffo_fields[j].name = "Barcode" => boffo_fields[j].enabled

\* C18 (as claimed): a results sheet whose heading row has been written,
\* by the barcode lookup or by a search, has Barcode as its first column.
C18_BarcodeIsFirstColumn ==
  (Len(sheet) > 0 /\ pc \in {"batch", "done"}) =>
     /\ Len(sheet[1]) > 0
     /\ sheet[1][1] = <<"Barcode", 0>>

\* C19: when flags have been saved with saveFieldSelections and
\* restoreFieldSelections has then run in a new execution, it has run without
\* error and every field of the "fields" array has the flag that was saved
\* for it.
C19_RestoredAsSaved ==
  (pc = "menuItemSelectFields" /\ selections # <<>>) =>
     /\ error = ""
     /\ \A i \in 1..Len(fields) : fieldsArray[i].enabled = selections[i]

\* Flags that differ from the defaults in two fields have been saved and
\* restored.
C19_Witness ==
  /\ pc = "menuItemSelectFields"
  /\ selections = <<TRUE, FALSE, TRUE>>
  /\ boffo_fields = storedFields(selections)
  /\ ~fieldsArray[2].enabled
  /\ fieldsArray[3].enabled
  /\ fields[2].enabled /\ ~fields[3].enabled

\* C20 (as claimed): when restoreFieldSelections has run on selections stored
\* under this or another revision of the field list, it has run without
\* error, every field whose name is in the stored list has the flag stored
\* under that name, wherever it stands, and every other field has its
\* default.
C20_RestoredByNameAcrossRevisions ==
  (pc = "menuItemSelectFields" /\ selections = <<>> /\ boffo_fields # <<>>) =>
     /\ error = ""
     /\ \A i \in 1..Len(fields) :
          LET stored == {j \in 1..Len(boffo_fields) : boffo_fields[j].name = fields[i].name}
          IN  IF stored = {}
              THEN fieldsArray[i].enabled = fields[i].enabled
              ELSE \A j \in stored : fieldsArray[i].enabled = boffo_fields[j].enabled

\* C29: after menuItemClearToken the token is not set while the stored URL,
\* tenant id and field selections are what they were before it, and a
\* withCredentials that runs right after it executes nothing and shows the
\* credentials dialog.
C29_ClearTokenRemovesOnlyToken ==
  /\ [](last.handler = "menuItemClearToken" =>
          /\ boffo_folio_api_token = <<>>
          /\ boffo_folio_url = last.before.folioUrl
          /\ boffo_folio_tenant_id = last.before.tenantId)
  /\ [][last'.handler = "menuItemClearToken" => boffo_fields' = boffo_fields]_vars
  /\ [][(last.handler = "menuItemClearToken" /\ last'.handler = "withCredentials") =>
          /\ last'.executed = ""
          /\ last'.requested
          /\ last'.check = NoResponse
          /\ dialog'.open
          /\ dialog'.callAfterSuccess = last'.callAfterSuccess]_vars

\* A token has been cleared while URL and tenant id were stored and stay so.
C29_Witness ==
  /\ last.handler = "menuItemClearToken"
  /\ last.before.token # <<>>
  /\ boffo_folio_api_token = <<>>
  /\ boffo_folio_url # <<>>
  /\ boffo_folio_tenant_id # <<>>

\* C30: a token check that was answered decides for valid exactly when the
\* status is below 400 (the wrapped function runs exactly then), it leaves
\* the three stored credentials as they were, and two checks in succession
\* that get the same answer for the same stored credentials decide the same.
C30_ValidIffBelow400 ==
  /\ []((last.handler = "withCredentials" /\ last.check # NoResponse /\ ~last.check.threw) =>
          /\ (last.executed # "") <=> (last.check.code < 400)
          /\ getStoredCredentials = last.before)
  /\ [][(/\ last.handler = "withCredentials" /\ last'.handler = "withCredentials"
         /\ last.check # NoResponse /\ last'.check = last.check
         /\ last'.before = last.before) =>
            (last'.executed # "") = (last.executed # "")]_vars

\* A check answered 399, the greatest status taken for valid, has let the
\* operation run.
C30_Witness ==
  /\ last.handler = "withCredentials"
  /\ last.check.code = 399
  /\ last.executed = "lookUpBarcodes"
  /\ boffo_folio_api_token # <<>>

\* C24 (as claimed): a login that obtained no token has shown one of three
\* alerts: 'Failed due to an unrecognized error' when the request raised,
\* 'FOLIO rejected the request' with the message of the body, when it has
\* one, on a status 4xx, 'Failed due to a FOLIO server or network problem' on
\* a status 5xx; "Try again?" has been answered only on a status 4xx.
C24_ThreeLoginFailureOutcomes ==
  (last.handler = "saveFolioInfo" /\ ~gotToken(last.login)) =>
     LET r == last.login
         is4xx == ~r.threw /\ r.code >= 400 /\ r.code < 500
     IN  /\ last.alert \in {"Failed due to an unrecognized error",
                            "FOLIO rejected the request",
                            "Failed due to a FOLIO server or network problem"}
         /\ r.threw => last.alert = "Failed due to an unrecognized error"
         /\ is4xx => /\ last.alert = "FOLIO rejected the request"
                     /\ r.body # "" => last.folioMsg # ""
                     /\ last.answer \in {"YES", "NO"}
         /\ (~r.threw /\ r.code >= 500) =>
               last.alert = "Failed due to a FOLIO server or network problem"
         /\ last.answer # "" => is4xx

StatusCodes == 100..599

FetchResponses == {FetchException} \cup {Response(c) : c \in StatusCodes}

InitFetchJSON ==
  /\ OperationsIdle
  /\ args \in {<<response>> : response \in FetchResponses}
  /\ returned = <<>>

\* The call of fetchJSON by an operation, which ends when fetchJSON quits.
callFetchJSON ==
  /\ pc = "idle"
  /\ LET out == fetchJSON(args[1])
     IN  /\ returned' = <<out>>
         /\ pc' = IF out.quit THEN "quit" ELSE "fetched"
         /\ error' = out.why
  /\ UNCHANGED <<propVars, fieldVars, args, credVars, lookupVars, rangeVars, pageVars>>

NextFetchJSON == callFetchJSON

SpecFetchJSON == InitFetchJSON /\ [][NextFetchJSON]_vars

\* C23: fetchJSON quits on every exception and on every status from 300 on,
\* with an error that follows the status (400 the malformed-call error,
\* 401 and 403 the authentication error, 404 the error of a call that does
\* not exist, 409, 500 and 501 the server error, every other status the
\* error of communicating with FOLIO, an exception the unrecognized error),
\* and never returns a parsed body for them; the errors of different groups
\* differ.
C23_ErrorFollowsStatus ==
  returned # <<>> =>
    LET r == args[1]
        o == returned[1]
        group(x) == IF x.threw THEN "exception"
                    ELSE IF x.code = 400 THEN "malformed"
                    ELSE IF x.code \in {401, 403} THEN "authentication"
                    ELSE IF x.code = 404 THEN "not found"
                    ELSE IF x.code \in {409, 500, 501} THEN "server"
                    ELSE "other"
    IN  IF r.threw \/ r.code >= 300
        THEN /\ o.quit /\ ~o.parsed
             /\ pc = "quit"
             /\ error = o.why /\ error # ""
             /\ r.threw => o.why = "Failed due to an unrecognized error"
             /\ group(r) = "malformed" =>
                  o.why = "A bug in Boffo resulted in a malformed API call to FOLIO."
             /\ group(r) = "authentication" =>
                  o.why = "Stopped due to an authentication error"
             /\ group(r) = "not found" =>
                  o.details = "The API call made by Boffo does not seem to exist"
             /\ group(r) = "server" => o.why = "Stopped due to a FOLIO server error"
             /\ group(r) = "other" =>
                  o.details = "An error occurred communicating with FOLIO"
             /\ \A x \in FetchResponses :
                  ((x.threw \/ x.code >= 300) /\ group(x) # group(r)) =>
                     <<fetchJSON(x).why, fetchJSON(x).details>> # <<o.why, o.details>>
        ELSE ~o.quit /\ o.parsed /\ pc = "fetched"

\* A read answered 403 has ended with the authentication error.
C23_Witness ==
  /\ returned # <<>>
  /\ args[1].code = 403
  /\ pc = "quit"
  /\ error = "Stopped due to an authentication error"

(***************************************************************************)
(* Specification of batchedList called on its own.                         *)
(***************************************************************************)

\* Inputs of up to MaxInputLen elements and slice sizes from 1 up to
\* MaxSliceSize.
MaxInputLen == 5

MaxSliceSize == 4

InitBatchedList ==
  /\ OperationsIdle
  /\ args \in {<<input, sliceSize>> : input \in SeqsUpTo(Barcodes, MaxInputLen),
                                      sliceSize \in 1..MaxSliceSize}
  /\ returned = <<>>

callBatchedList ==
  /\ returned = <<>>
  /\ returned' = <<batchedList(args[1], args[2])>>
  /\ UNCHANGED <<propVars, fieldVars, args, credVars, lookupVars, rangeVars, pageVars,
                 pc, error>>

NextBatchedList == callBatchedList

SpecBatchedList == InitBatchedList /\ [][NextBatchedList]_vars

\* C28: batchedList(input, n) with n >= 1 returns batches that are non-empty
\* and hold at most n elements, all but the last exactly n; the k-th element
\* of the input is the element of the batches at its place in order, and the
\* batches hold no other element; an empty input gives no batch.
C28_BatchesPartitionInput ==
  returned # <<>> =>
    LET input == args[1]
        n == args[2]
        out == returned[1]
    IN  /\ Len(input) = 0 => out = <<>>
        /\ \A b \in 1..Len(out) :
             /\ Len(out[b]) >= 1
             /\ Len(out[b]) <= n
             /\ b < Len(out) => Len(out[b]) = n
        /\ Len(input) > 0 =>
             /\ Len(out) = ((Len(input) - 1) \div n) + 1
             /\ Len(out[Len(out)]) = Len(input) - n * (Len(out) - 1)
        /\ \A k \in 1..Len(input) :
             out[((k - 1) \div n) + 1][((k - 1) % n) + 1] = input[k]

\* Five elements in slices of two: two full batches and a last one of one.
C28_Witness ==
  /\ returned # <<>>
  /\ Len(args[1]) = 5
  /\ args[2] = 2
  /\ Len(returned[1]) = 3
  /\ Len(returned[1][3]) = 1

(***************************************************************************)
(* Specification of the credentials form with what a user may type.        *)
(***************************************************************************)

\* What the url input can hold: the URLs above, http://a, nothing.
FormUrls == Urls \cup {<<"h", "t", "t", "p", ":", "/", "/", "a">>, <<>>}

\* What the tenantId input can hold: t1, tt, 1t, https://a, nothing.
FormTenantIds ==
  {<<"t", "1">>, <<"t", "t">>, <<"1", "t">>, Https \o <<"a">>, <<>>}

\* Answers to the login: an exception, a rejection, a server error, a token.
FormLoginResponses ==
  {FetchException, Response(422), Response(500)}
  \cup {[threw |-> FALSE, code |-> 201, hasToken |-> TRUE, token |-> t, body |-> ""] :
          t \in Tokens}

submitLogin == submitFormOf(FormUrls, FormTenantIds, FormLoginResponses)

InitLogin == ProgramIdle /\ NoHelperCall

NextLogin ==
  \/ onInstall
  \/ menuItemGetCredentials
  \/ cancelForm
  \/ submitLogin
  \/ menuItemClearToken

SpecLogin == InitLogin /\ [][NextLogin]_vars

encodeURIChar(c) ==
  CASE c = " "  -> "%20"
    [] c = "\"" -> "%22"
    [] c = "<"  -> "%3C"
    [] c = ">"  -> "%3E"
    [] OTHER    -> c

encodeURI(s) == [i \in 1..Len(s) |-> encodeURIChar(s[i])]

\* barcodes.join('%20OR%20barcode=='), from index i on.
RECURSIVE joinBarcodes(_, _)
joinBarcodes(batch, i) ==
  IF i > Len(batch) THEN <<>>
  ELSE (IF i > 1 THEN <<"%20", "OR", "%20", "barcode", "=", "=">> ELSE <<>>)
       \o batch[i] \o joinBarcodes(batch, i + 1)

\* The endpoint of itemRecords.
itemRecordsEndpoint(batch, folioUrl) ==
  folioUrl \o <<"/", "inventory", "/", "items">>
  \o <<"?", "limit", "=", ToString(Len(batch)), "&", "query", "=", "barcode", "=", "=">>
  \o joinBarcodes(batch, 1)

\* `effectiveLocationId==${locationId} AND `, when a location was chosen.
locationTerm(locId) ==
  IF locId = "Any" THEN <<>>
  ELSE <<"effectiveLocationId", "=", "=", locId, " ", "AND", " ">>

\* makeQuery of getItemsForCN, cn being the wildcarded call number.
makeQuery(cn, locId, folioUrl, limit, offs) ==
  folioUrl \o <<"/", "inventory", "/", "items">>
  \o <<"?", "limit", "=", ToString(limit), "&", "offset", "=", ToString(offs),
       "&", "query", "=">>
  \o encodeURI(locationTerm(locId)
               \o <<"effectiveCallNumberComponents.callNumber", "=", "=", "\"">>
               \o cn \o <<"\"">>)

\* makeRangeQuery of showItemsForCallNumberRange.
makeRangeQuery(eso1, eso2, locId, folioUrl, limit, offs) ==
  folioUrl \o <<"/", "inventory", "/", "items">>
  \o <<"?", "limit", "=", ToString(limit), "&", "offset", "=", ToString(offs),
       "&", "query", "=">>
  \o encodeURI(locationTerm(locId)
               \o <<"effectiveShelvingOrder", ">", "=", "\"">> \o eso1 \o <<"\"">>
               \o <<" ", "AND", " ", "effectiveShelvingOrder", "<", "=", "\"">>
               \o eso2 \o <<"\"">>)

\* Longest text a user types in the URL specification.
MaxTextLen == 3

\* Characters of a cell that is read as a barcode.
BarcodeChars == {"1", " ", "&", "="}

\* getBarcodesFromSelection keeps the cells that hold a digit.
looksLikeBarcode(x) == \E i \in 1..Len(x) : x[i] \in Digits

BarcodeTexts == {x \in SeqsUpTo(BarcodeChars, MaxTextLen) : looksLikeBarcode(x)}

\* Characters of a call number typed into the call numbers form.
QueryCNChars == {"G", "1", " ", "\"", "&", "#"}

CallNumberTexts == SeqsUpTo(QueryCNChars, MaxTextLen) \ {<<>>}

\* Values of effectiveShelvingOrder in FOLIO's records.
ShelvingOrders == {<<"G", " ", "1">>, <<"G", " ", "1", "1">>}

\* The locations of the form's menu.
LocationIds == {"Any", "loc1"}

InitQuery ==
  /\ OperationsIdle
  /\ \/ args \in {<<"itemRecords", <<b>>>> : b \in BarcodeTexts}
     \/ args \in {<<"itemRecords", <<<<"1">>, b>>>> : b \in BarcodeTexts}
     \/ args \in {<<"makeQuery", cn, l>> : cn \in CallNumberTexts, l \in LocationIds}
     \/ args \in {<<"makeRangeQuery", e1, e2, l>> :
                    e1 \in ShelvingOrders, e2 \in ShelvingOrders, l \in LocationIds}
  /\ returned = <<>>

HelperUnchanged ==
  UNCHANGED <<propVars, fieldVars, args, credVars, lookupVars, rangeVars, pageVars,
              pc, error>>

callItemRecords ==
  /\ args[1] = "itemRecords"
  /\ returned = <<>>
  /\ returned' = <<itemRecordsEndpoint(args[2], boffo_folio_url)>>
  /\ HelperUnchanged

callMakeQuery ==
  /\ args[1] = "makeQuery"
  /\ returned = <<>>
  /\ returned' = <<makeQuery(wildcardedCN(args[2]), args[3], boffo_folio_url, 0, 0)>>
  /\ HelperUnchanged

callMakeRangeQuery ==
  /\ args[1] = "makeRangeQuery"
  /\ returned = <<>>
  /\ returned' = <<makeRangeQuery(args[2], args[3], args[4], boffo_folio_url, 0, 0)>>
  /\ HelperUnchanged

NextQuery == callItemRecords \/ callMakeQuery \/ callMakeRangeQuery

SpecQuery == InitQuery /\ [][NextQuery]_vars

\* C27: in every request URL built from barcodes or from a call number, the
\* user's text adds no URL parameter ("&"), no fragment ("#") and no "=",
\* appears without a raw space or raw double quote, and the query of a call
\* number search holds exactly the two double quotes that delimit the
\* literal.
C27_UserTextStaysInItsTerm ==
  returned # <<>> =>
    LET url == returned[1]
        count(c) == Cardinality({i \in 1..Len(url) : url[i] = c})
        located == args[1] # "itemRecords" /\ args[Len(args)] # "Any"
    IN  /\ count("#") = 0
        /\ count(" ") = 0
        /\ count("\"") = 0
        /\ args[1] = "itemRecords" =>
             /\ count("&") = 1
             /\ count("=") = 2 + 2 * Len(args[2])
        /\ args[1] = "makeQuery" =>
             /\ count("&") = 2
             /\ count("=") = 5 + (IF located THEN 2 ELSE 0)
             /\ count("%22") = 2
        /\ args[1] = "makeRangeQuery" =>
             /\ count("&") = 2
             /\ count("=") = 5 + (IF located THEN 2 ELSE 0)
             /\ count("%22") = 4

(***************************************************************************)
(* Specification of the getValue functions of the "fields" array.          *)
(***************************************************************************)

\* The getValue function of every field, in the order of the "fields" array:
\*   property       item => item.member
\*   nested         item => item.member.sub
\*   join           item => item.member.join(', ')
\*   nested join    item => item.member.sub.join(', ')
\*   subfield       item => subfield(item.member, 'sub')
\*   collect        item => collect(item.member, 'sub')
\*   collectNotes   item => collectNotes(item.member)
fieldExtractors ==
  <<
    [name |-> "Barcode", how |-> "property", member |-> "barcode", sub |-> ""],
    [name |-> "Title", how |-> "property", member |-> "title", sub |-> ""],
    [name |-> "Call number", how |-> "property", member |-> "callNumber", sub |-> ""],
    [name |-> "Circulation notes", how |-> "collectNotes", member |-> "circulationNotes", sub |-> "note"],
    [name |-> "Contributor names", how |-> "collect", member |-> "contributorNames", sub |-> "name"],
    [name |-> "Discovery suppress", how |-> "property", member |-> "discoverySuppress", sub |-> ""],
    [name |-> "Effective call number", how |-> "nested", member |-> "effectiveCallNumberComponents", sub |-> "callNumber"],
    [name |-> "Effective call number prefix", how |-> "nested", member |-> "effectiveCallNumberComponents", sub |-> "prefix"],
    [name |-> "Effective call number suffix", how |-> "nested", member |-> "effectiveCallNumberComponents", sub |-> "suffix"],
    [name |-> "Effective call number type ID", how |-> "nested", member |-> "effectiveCallNumberComponents", sub |-> "typeId"],
    [name |-> "Effective location", how |-> "nested", member |-> "effectiveLocation", sub |-> "name"],
    [name |-> "Effective location ID", how |-> "nested", member |-> "effectiveLocation", sub |-> "id"],
    [name |-> "Effective shelving order", how |-> "property", member |-> "effectiveShelvingOrder", sub |-> ""],
    [name |-> "Electronic access", how |-> "collect", member |-> "electronicAccess", sub |-> "uri"],
    [name |-> "Enumeration", how |-> "property", member |-> "enumeration", sub |-> ""],
    [name |-> "Former IDs", how |-> "join", member |-> "formerIds", sub |-> ""],
    [name |-> "HRID", how |-> "property", member |-> "hrid", sub |-> ""],
    [name |-> "Holdings record ID", how |-> "property", member |-> "holdingsRecordId", sub |-> ""],
    [name |-> "Is bound with", how |-> "property", member |-> "isBoundWith", sub |-> ""],
    [name |-> "Item level call number", how |-> "property", member |-> "itemLevelCallNumber", sub |-> ""],
    [name |-> "Material type", how |-> "nested", member |-> "materialType", sub |-> "name"],
    [name |-> "Material type ID", how |-> "nested", member |-> "materialType", sub |-> "id"],
    [name |-> "Metadata: created by user ID", how |-> "nested", member |-> "metadata", sub |-> "createdByUserId"],
    [name |-> "Metadata: created date", how |-> "nested", member |-> "metadata", sub |-> "createdDate"],
    [name |-> "Metadata: updated by user ID", how |-> "nested", member |-> "metadata", sub |-> "updatedByUserId"],
    [name |-> "Metadata: updated date", how |-> "nested", member |-> "metadata", sub |-> "updatedDate"],
    [name |-> "Notes", how |-> "collectNotes", member |-> "notes", sub |-> "note"],
    [name |-> "Permanent loan type", how |-> "nested", member |-> "permanentLoanType", sub |-> "name"],
    [name |-> "Permanent loan type ID", how |-> "nested", member |-> "permanentLoanType", sub |-> "id"],
    [name |-> "Permanent location", how |-> "nested", member |-> "permanentLocation", sub |-> "name"],
    [name |-> "Permanent location ID", how |-> "nested", member |-> "permanentLocation", sub |-> "id"],
    [name |-> "Purchase order line identifier", how |-> "property", member |-> "purchaseOrderLineIdentifier", sub |-> ""],
    [name |-> "Statistical code IDs", how |-> "join", member |-> "statisticalCodeIds", sub |-> ""],
    [name |-> "Status", how |-> "nested", member |-> "status", sub |-> "name"],
    [name |-> "Status date", how |-> "nested", member |-> "status", sub |-> "date"],
    [name |-> "Tags", how |-> "nested join", member |-> "tags", sub |-> "tagList"],
    [name |-> "Temporary location", how |-> "subfield", member |-> "temporaryLocation", sub |-> "name"],
    [name |-> "Temporary location ID", how |-> "subfield", member |-> "temporaryLocation", sub |-> "id"],
    [name |-> "UUID", how |-> "property", member |-> "id", sub |-> ""],
    [name |-> "Year caption", how |-> "join", member |-> "yearCaption", sub |-> ""]
  >>

\* The objects and lists of an item record that getValue functions look into.
NestedMembers ==
  {fieldExtractors[i].member : i \in {j \in 1..Len(fieldExtractors) :
                                        fieldExtractors[j].how # "property"}}

\* An item record: the nested members it has, and whether its tags object
\* has a tagList.
ItemRecord(present, tagList) == [present |-> present, tagList |-> tagList]

ItemRecords ==
  {ItemRecord(present, tagList) :
     present \in {NestedMembers, {}}
                 \cup {NestedMembers \ {m} : m \in NestedMembers}
                 \cup {{m} : m \in NestedMembers},
     tagList \in BOOLEAN}

\* The result of a JavaScript expression: a value or a TypeError. "text"
\* stands for what the record holds.
Value(v) == [threw |-> FALSE, value |-> v]

TypeError == [threw |-> TRUE, value |-> "TypeError"]

\* subfield(field, subfield): field ? field[subfield] : ''
subfield(field) == IF field THEN Value("text") ELSE Value("")

\* collect(list, subfield): list ? list.map(...).join('; ') : ''
collect(list) == IF list THEN Value("text") ELSE Value("")

\* collectNotes(list): list ? list.map(...).join(linefeed + linefeed) : ''
collectNotes(list) == IF list THEN Value("text") ELSE Value("")

\* fields[i].getValue(item)
fieldGetValue(i, item) ==
  LET f   == fieldExtractors[i]
      has == f.member \in item.present
  IN  CASE f.how = "property"     -> Value("text")
        [] f.how = "nested"       -> IF has THEN Value("text") ELSE TypeError
        [] f.how = "join"         -> IF has THEN Value("text") ELSE TypeError
        [] f.how = "nested join"  -> IF has /\ item.tagList THEN Value("text") ELSE TypeError
        [] f.how = "subfield"     -> subfield(has)
        [] f.how = "collect"      -> collect(has)
        [] f.how = "collectNotes" -> collectNotes(has)

InitGetValue ==
  /\ OperationsIdle
  /\ args \in {<<i, item>> : i \in 1..Len(fieldExtractors), item \in ItemRecords}
  /\ returned = <<>>

\* enabledFields.map(f => f.getValue(rec)) for one field; an error raised by
\* getValue is caught nowhere and ends the operation.
callGetValue ==
  /\ pc = "idle"
  /\ returned = <<>>
  /\ LET out == fieldGetValue(args[1], args[2])
     IN  /\ returned' = <<out>>
         /\ pc' = IF out.threw THEN "quit" ELSE "written"
         /\ error' = IF out.threw THEN out.value ELSE ""
  /\ UNCHANGED <<propVars, fieldVars, args, credVars, lookupVars, rangeVars, pageVars>>

NextGetValue == callGetValue

SpecGetValue == InitGetValue /\ [][NextGetValue]_vars

\* C21: for every field and every item record, getValue returns without
\* raising an error, and the value is the empty string when the nested
\* object or list the field reads is absent from the record.
C21_ExtractorsTolerateMissingMembers ==
  returned # <<>> =>
    LET f    == fieldExtractors[args[1]]
        item == args[2]
        missing == \/ f.how # "property" /\ f.member \notin item.present
                   \/ f.how = "nested join" /\ ~item.tagList
    IN  /\ ~returned[1].threw
        /\ pc # "quit"
        /\ missing => returned[1].value = ""

\* C31: an operation requested once is executed at most once: the form's
\* success handler never has callBoffoFunction run the operation that the
\* saveFolioInfo call it follows has already run through withCredentials.
C31_ExecutedAtMostOnce ==
  [][(last.handler = "saveFolioInfo" /\ last'.handler = "callBoffoFunction")
       => last.executed = ""]_vars

(***************************************************************************)
(* Specification of the single call-number search in a large collection.   *)
(***************************************************************************)

\* One call number, or the same call number twice, is searched at any
\* location; FOLIO holds under it up to one listed item and a bulk of
\* further records: none, or as many as the sheet has room for with the
\* columns enabled, one less or one more.
InitLargeSingle ==
  /\ LoggedIn
  /\ FieldsFormIdle
  /\ NoHelperCall
  /\ LookupIdle
  /\ PageIdle
  /\ firstCN \in {<<"A">>, <<"B">>}
  /\ lastCN \in {<<>>, firstCN}
  /\ locationId \in {"Any", "L1"}
  /\ items \in {<<>>, <<[barcode |-> 1, id |-> 1, cn |-> <<"A">>, eso |-> 1]>>}
  /\ boffo_fields \in {<<>>, storedFields([i \in 1..Len(fields) |-> i = 1])}
  /\ bulk \in {0} \cup {maxRows(Len(getEnabledFields)) + d : d \in {-1, 0, 1}}
  /\ bulkESO = 1
  /\ firstItemList = <<>>
  /\ lastItemList = <<>>
  /\ firstESO = 0
  /\ lastESO = 0
  /\ expected = 0
  /\ pc = "getItemsInCallNumberRange"
  /\ error = ""

NextLargeSingle ==
  \/ getItemsInCallNumberRange
  \/ getItemsForCN
  \/ fetchPage
  \/ getLocationsList
  \/ searchRequestFails

SpecLargeSingle == InitLargeSingle /\ [][NextLargeSingle]_vars

\* C32: once the preliminary query of a single call-number search has
\* reported more records than floor(10,000,000 / number of enabled columns)
\* - 1, the search has ended with the capacity error, no page has been
\* requested and no results sheet exists.
C32_SingleSearchChecksCapacity ==
  \A i \in 1..Len(requests) :
    (/\ requests[i].kind = "cnProbe"
     /\ requests[i].of = "single"
     /\ requests[i].got = "items"
     /\ requests[i].total > (10000000 \div Len(getEnabledFields)) - 1) =>
       /\ pc = "quit"
       /\ error = "This query exceeds the maximum number of results that can be written"
       /\ \A j \in 1..Len(requests) : requests[j].kind # "page"
       /\ sheet = <<>>

(***************************************************************************)
(* Specification of makeCallNumberVariations.                              *)
(***************************************************************************)

\* String.prototype.trim(), the space being the only white space here.
RECURSIVE trimEnd(_)
trimEnd(s) ==
  IF Len(s) > 0 /\ s[Len(s)] \in Spaces THEN trimEnd(SubSeq(s, 1, Len(s) - 1)) ELSE s

trim(s) == trimEnd(SubSeq(s, runEnd(s, 1, Spaces), Len(s)))

\* classNumberRe.exec(cn), classNumberRe being
\* /^[a-z]{1,3}[0-9]+(\.[0-9]+)?/i: one to three letters, then a digit.
classNumberMatch(cn) ==
  LET l == runEnd(cn, 1, Letters)
  IN  l > 1 /\ l <= 4 /\ l <= Len(cn) /\ cn[l] \in Digits

\* dotLetterRe matches at index i, dotLetterRe being
\* /\.[A-Z][0-9]+[^a-z0-9]/ig; the index behind the match, or 0.
dotLetterEnd(cn, i) ==
  IF i + 2 <= Len(cn) /\ cn[i] = "." /\ cn[i + 1] \in Letters /\ cn[i + 2] \in Digits
  THEN LET d == runEnd(cn, i + 2, Digits)
       IN  IF d <= Len(cn) /\ cn[d] \notin Letters \cup Digits THEN d + 1 ELSE 0
  ELSE 0

\* while ((match = dotLetterRe.exec(cn))) { ... }, the search being at index i.
RECURSIVE dotLetterLoop(_, _)
dotLetterLoop(cn, i) ==
  IF i > Len(cn) THEN <<>>
  ELSE IF dotLetterEnd(cn, i) = 0 THEN dotLetterLoop(cn, i + 1)
  ELSE LET front == trim(SubSeq(cn, 1, i - 1))
           tail  == trim(SubSeq(cn, i, Len(cn)))
       IN  <<front \o tail, front \o <<" ">> \o tail>>
           \o dotLetterLoop(cn, dotLetterEnd(cn, i))

\* makeCallNumberVariations(givenCN): quit stands for the call of
\* quit('Invalid call number').
makeCallNumberVariations(givenCN) ==
  LET cn == removeClassSpace(givenCN)
  IN  IF ~classNumberMatch(cn) THEN [quit |-> TRUE, candidates |-> <<>>]
      ELSE [quit |-> FALSE, candidates |-> dotLetterLoop(cn, 1)]

\* The examples of the function's documentation: the call number given and
\* the candidates listed for it.
DocExamples ==
  <<
    [cn |-> <<"G", "V", "1", "9", "9", ".", "3">>,
     listed |-> {<<"G", "V", "1", "9", "9", ".", "3">>}],
    [cn |-> <<"G", "V", "1", "9", "9", ".", "F", "3">>,
     listed |-> {<<"G", "V", "1", "9", "9", ".", "F", "3">>,
                 <<"G", "V", "1", "9", "9", " ", ".", "F", "3">>}],
    [cn |-> <<"H", "B", "1", "7", "1", ".", "A", "4", "1", "8", " ", "2", "0", "0", "3">>,
     listed |-> {<<"H", "B", "1", "7", "1", ".", "A", "4", "1", "8", " ", "2", "0", "0", "3">>,
                 <<"H", "B", "1", "7", "1", " ", ".", "A", "4", "1", "8", " ", "2", "0", "0", "3">>}],
    [cn |-> <<"G", "V", " ", "1", "9", "9", ".", "9", "2", " ", ".", "B", "3", "8", " ", "A", "3", " ", "1", "9", "9", "4">>,
     listed |-> {<<"G", "V", "1", "9", "9", ".", "9", "2", " ", ".", "B", "3", "8", " ", "A", "3", " ", "1", "9", "9", "4">>,
                 <<"G", "V", "1", "9", "9", ".", "9", "2", ".", "B", "3", "8", " ", "A", "3", " ", "1", "9", "9", "4">>}],
    [cn |-> <<"G", "V", " ", "1", "9", "9", ".", "9", "2", ".", "F", "3", "9", " ", ".", "F", "3", "9", " ", "2", "0", "1", "1">>,
     listed |-> {<<"G", "V", "1", "9", "9", ".", "9", "2", ".", "F", "3", "9", " ", ".", "F", "3", "9", " ", "2", "0", "1", "1">>,
                 <<"G", "V", "1", "9", "9", ".", "9", "2", ".", "F", "3", "9", ".", "F", "3", "9", " ", "2", "0", "1", "1">>,
                 <<"G", "V", "1", "9", "9", ".", "9", "2", " ", ".", "F", "3", "9", " ", ".", "F", "3", "9", " ", "2", "0", "1", "1">>,
                 <<"G", "V", "1", "9", "9", ".", "9", "2", " ", ".", "F", "3", "9", ".", "F", "3", "9", " ", "2", "0", "1", "1">>}],
    [cn |-> <<"E", "5", "0", "5", ".", "5", " ", "1", "0", "2", "n", "d", ".", "F", "5", "7", " ", "1", "9", "9", "9">>,
     listed |-> {<<"E", "5", "0", "5", ".", "5", " ", "1", "0", "2", "n", "d", ".", "F", "5", "7", " ", "1", "9", "9", "9">>,
                 <<"E", "5", "0", "5", ".", "5", " ", "1", "0", "2", "n", "d", " ", ".", "F", "5", "7", " ", "1", "9", "9", "9">>}],
    [cn |-> <<"H", "B", "3", "7", "1", "7", " ", "1", "9", "2", "9", ".", "E", "3", "7", " ", "2", "0", "1", "5">>,
     listed |-> {<<"H", "B", "3", "7", "1", "7", " ", "1", "9", "2", "9", ".", "E", "3", "7", " ", "2", "0", "1", "5">>,
                 <<"H", "B", "3", "7", "1", "7", " ", "1", "9", "2", "9", " ", ".", "E", "3", "7", " ", "2", "0", "1", "5">>}],
    [cn |-> <<"D", "T", "4", "2", "3", ".", "E", "2", "6", " ", "9", "t", "h", ".", "e", "d", ".", " ", "2", "0", "1", "2">>,
     listed |-> {<<"D", "T", "4", "2", "3", ".", "E", "2", "6", " ", "9", "t", "h", ".", "e", "d", ".", " ", "2", "0", "1", "2">>,
                 <<"D", "T", "4", "2", "3", ".", "E", "2", "6", " ", "9", "t", "h", " ", ".", "e", "d", ".", " ", "2", "0", "1", "2">>}]
  >>

\* Call numbers of up to 5 characters written with G, 1, space and period.
ShortCallNumbers ==
  {cn \in SeqsUpTo(CNChars, 5) : Len(cn) > 0 /\ cn[1] \in Letters /\ cn[Len(cn)] # " "}

InitVariations ==
  /\ OperationsIdle
  /\ args \in {<<DocExamples[i].cn>> : i \in 1..Len(DocExamples)}
              \cup {<<cn>> : cn \in ShortCallNumbers}
  /\ returned = <<>>

callMakeCallNumberVariations ==
  /\ pc = "idle"
  /\ returned = <<>>
  /\ LET out == makeCallNumberVariations(args[1])
     IN  /\ returned' = <<out>>
         /\ IF out.quit THEN Quit("Invalid call number") ELSE pc' = "returned" /\ error' = error
  /\ UNCHANGED <<propVars, fieldVars, args, credVars, lookupVars, rangeVars, pageVars>>

NextVariations == callMakeCallNumberVariations

SpecVariations == InitVariations /\ [][NextVariations]_vars

\* C34: for each example of its documentation makeCallNumberVariations
\* returns the candidates listed there, all of them and no other.
C34_DocumentedCandidates ==
  returned # <<>> =>
    \A i \in 1..Len(DocExamples) :
      args[1] = DocExamples[i].cn =>
        /\ ~returned[1].quit
        /\ {returned[1].candidates[k] : k \in 1..Len(returned[1].candidates)}
             = DocExamples[i].listed

(***************************************************************************)
(* Specification of getSampleItemsForCN.                                   *)
(***************************************************************************)

\* results.items of fetchJSONbyCN(thisCN): the items of the catalogue whose
\* call number the query term matches.
fetchJSONbyCN(thisCN, catalogue) ==
  SelectSeq(catalogue, LAMBDA it : cqlMatches(thisCN, it.cn))

\* The loop over the candidates from index i on: the candidates queried and
\* the items returned.
RECURSIVE candidateLoop(_, _, _)
candidateLoop(candidates, i, catalogue) ==
  IF i > Len(candidates) THEN [queried |-> <<>>, items |-> <<>>]
  ELSE LET found == fetchJSONbyCN(candidates[i], catalogue)
       IN  IF Len(found) > 0
           THEN [queried |-> <<candidates[i]>>, items |-> found]
           ELSE LET rest == candidateLoop(candidates, i + 1, catalogue)
                IN  [queried |-> <<candidates[i]>> \o rest.queried, items |-> rest.items]

\* Every candidate is queried, whatever the earlier ones produced.
candidateSearch_all(candidates, catalogue) ==
  [queried |-> candidates,
   items   |-> candidateLoop(candidates, 1, catalogue).items]

\* for (const candidate of makeCallNumberVariations(cn)) { ... }
candidateSearch(candidates, catalogue) == candidateLoop(candidates, 1, catalogue)

\* /[ .]/.test(cn)
hasSpaceOrPeriod(cn) == \E i \in 1..Len(cn) : cn[i] \in {" ", "."}

\* getSampleItemsForCN(cn, locationId) when every request is answered:
\* the call numbers queried in order, the items returned, and whether it
\* ended in quit.
getSampleItemsForCN(cn, catalogue) ==
  LET exact == fetchJSONbyCN(cn, catalogue)
      made  == makeCallNumberVariations(cn)
      loop  == candidateSearch(made.candidates, catalogue)
  IN  IF Len(exact) > 0
      THEN [queried |-> <<cn>>, items |-> exact, quit |-> ""]
      ELSE IF ~hasSpaceOrPeriod(cn)
      THEN [queried |-> <<cn>>, items |-> <<>>, quit |-> "Call number not found"]
      ELSE IF made.quit
      THEN [queried |-> <<cn>>, items |-> <<>>, quit |-> "Invalid call number"]
      ELSE [queried |-> <<cn>> \o loop.queried, items |-> loop.items, quit |-> ""]

\* The same with fetchJSON quitting on request number fail (0: on none).
getSampleItemsForCNFailing(cn, catalogue, fail, response) ==
  LET out == getSampleItemsForCN(cn, catalogue)
  IN  IF fail \in 1..Len(out.queried)
      THEN [queried |-> SubSeq(out.queried, 1, fail), items |-> <<>>,
            quit |-> fetchJSONError(response)]
      ELSE out

\* Call numbers typed by the user: with one or two cutters, with a cutter at
\* the end, without any, without space and period.
SampleCallNumbers ==
  {<<"G", "1", ".", "G", "1", " ", "1">>,
   <<"G", "1", " ", ".", "G", "1", " ", "1">>,
   <<"G", "1", ".", "G", "1", " ", ".", "G", "1", " ", "1">>,
   <<"G", " ", "1", ".", "G", "1", " ", "1">>,
   <<"G", "1", ".", "G", "1">>,
   <<"G", "1", ".", "1">>,
   <<"1", ".", "G", "1", " ", "1">>,
   <<"G", "1">>}

\* What FOLIO holds: up to two items, each under the call number as typed,
\* under one of its candidates, or under another call number.
SampleCatalogues(cn) ==
  LET made  == makeCallNumberVariations(cn).candidates
      cns   == {cn, <<"B", "1">>} \cup {made[k] : k \in 1..Len(made)}
      Item(id, c) == [barcode |-> id, id |-> id, cn |-> c, eso |-> id]
  IN  {<<>>} \cup {<<Item(1, c)>> : c \in cns}
             \cup {<<Item(1, c), Item(2, e)>> : c \in cns, e \in cns}

\* Requests of one call of getSampleItemsForCN that can fail.
MaxFail == 3

InitSample ==
  /\ OperationsIdle
  /\ \E cn \in SampleCallNumbers :
       args \in {<<cn, catalogue, fail>> : catalogue \in SampleCatalogues(cn),
                                           fail \in 0..MaxFail}
  /\ returned = <<>>

callGetSampleItemsForCN ==
  /\ pc = "idle"
  /\ returned = <<>>
  /\ \E response \in FetchFailures :
       LET out == getSampleItemsForCNFailing(args[1], args[2], args[3], response)
       IN  /\ returned' = <<out>>
           /\ IF out.quit # "" THEN Quit(out.quit) ELSE pc' = "returned" /\ error' = error
  /\ UNCHANGED <<propVars, fieldVars, args, credVars, lookupVars, rangeVars, pageVars>>

NextSample == callGetSampleItemsForCN

SpecSample == InitSample /\ [][NextSample]_vars

\* C33: when the search for the call number as given returns no record and
\* the call number holds a space or a period, the requests that follow are
\* for the candidates in the order of their generation, each one after a
\* candidate that returned no record; the search returns the items of the
\* first candidate that has some, and nothing when none has or a request
\* failed.
C33_StopsAtFirstSuccessfulCandidate ==
  returned # <<>> =>
    LET cn        == args[1]
        catalogue == args[2]
        out       == returned[1]
        has(c)    == \E i \in 1..Len(catalogue) : cqlMatches(c, catalogue[i].cn)
        itemsOf(c) == SelectSeq(catalogue, LAMBDA it : cqlMatches(c, it.cn))
        made      == makeCallNumberVariations(cn)
        cands     == made.candidates
        hits      == {k \in 1..Len(cands) : has(cands[k])}
        failed    == args[3] \in 1..Len(out.queried)
    IN  (~has(cn) /\ hasSpaceOrPeriod(cn) /\ ~made.quit) =>
          /\ out.queried[1] = cn
          /\ Len(out.queried) <= 1 + Len(cands)
          /\ \A k \in 2..Len(out.queried) : out.queried[k] = cands[k - 1]
          /\ \A k \in 2..(Len(out.queried) - 1) : ~has(out.queried[k])
          /\ (~failed /\ hits # {}) =>
               /\ has(out.queried[Len(out.queried)])
               /\ out.items = itemsOf(out.queried[Len(out.queried)])
               /\ pc = "returned"
          /\ (~failed /\ hits = {}) =>
               /\ Len(out.queried) = 1 + Len(cands)
               /\ out.items = <<>>
          /\ failed => out.items = <<>> /\ pc = "quit"

\* 'G1.G1 .G1 1' is searched, FOLIO has an item under the third candidate
\* only and under a later one: four requests, the last for the third
\* candidate, whose item is returned.
C33_Witness ==
  /\ returned # <<>>
  /\ args[1] = <<"G", "1", ".", "G", "1", " ", ".", "G", "1", " ", "1">>
  /\ Len(returned[1].queried) = 4
  /\ Len(makeCallNumberVariations(args[1]).candidates) = 4
  /\ Len(returned[1].items) = 1
  /\ returned[1].items[1].cn = makeCallNumberVariations(args[1]).candidates[3]
  /\ pc = "returned"

\* C35: every range query (with limit 0 or for a page) sent before the swap
\* has as lower bound the first non-empty shelving-order value, in the
\* server's order, among the items of firstCN and as upper bound the last
\* non-empty value among the items of lastCN; every range query sent after
\* the swap has as lower bound the first non-empty value among the items of
\* lastCN and as upper bound the last non-empty value among those of firstCN.
C35_BoundsFromFirstAndLastValues ==
  LET ofCN(cn)   == SelectSeq(items, LAMBDA it : it.cn = cn)
      valued(l)  == SelectSeq(l, LAMBDA it : it.eso # 0)
      firstOf(l) == valued(l)[1].eso
      lastOf(l)  == valued(l)[Len(valued(l))].eso
      ofRange(r) == r.kind = "rangeProbe" \/ (r.kind = "page" /\ r.of = "range")
      swapped(i) == \E j \in 1..(i - 1) :
                      /\ requests[j].kind = "rangeProbe"
                      /\ requests[j].got = "items"
                      /\ requests[j].total = 0
  IN  \A i \in 1..Len(requests) :
        ofRange(requests[i]) =>
          /\ valued(ofCN(firstCN)) # <<>>
          /\ valued(ofCN(lastCN)) # <<>>
          /\ IF swapped(i)
             THEN /\ requests[i].eso1 = firstOf(ofCN(lastCN))
                  /\ requests[i].eso2 = lastOf(ofCN(firstCN))
             ELSE /\ requests[i].eso1 = firstOf(ofCN(firstCN))
                  /\ requests[i].eso2 = lastOf(ofCN(lastCN))

\* A search with the call numbers given in reverse, finished after the swap:
\* firstCN has two items with different values, and the upper bound of the
\* second range query and of the page request is the value of the second.
C35_Witness ==
  LET A == SelectSeq(items, LAMBDA it : it.cn = firstCN)
      R == SelectSeq(requests, LAMBDA r : r.kind = "rangeProbe")
      final == requests[Len(requests)]
  IN  /\ pc = "done"
      /\ caller = "range"
      /\ Len(R) = 2
      /\ Len(A) = 2
      /\ A[1].eso # 0 /\ A[2].eso # 0 /\ A[1].eso # A[2].eso
      /\ R[2].eso2 = A[2].eso
      /\ final.kind = "page" /\ final.of = "range" /\ final.eso2 = A[2].eso

\* C36: the page requests of getRecordsForQuery are at the offsets 0, 100,
\* 200, ... in this order, each below the expected total, and when the
\* function returns it has issued ceil(totalRecords / 100) of them.
C36_PageOffsetsBelowTotal ==
  caller = "getRecordsForQuery" =>
    /\ \A i \in 1..Len(requests) :
         /\ requests[i].kind = "page"
         /\ requests[i].offset = (i - 1) * 100
         /\ requests[i].offset < totalRecords
    /\ pc = "done" => Len(requests) = (totalRecords + 99) \div 100

\* C37: a step after which a token is stored is either a login answered with
\* a token, which stores that token with the URL (as used for the request)
\* and the tenant id of that login, or leaves token, URL and tenant id as
\* they were; no token is stored at the start. A stored token is therefore
\* the one of the most recent successful login, stored with that login's
\* URL and tenant id.
C37_TokenWithUrlAndTenantOfItsLogin ==
  [][boffo_folio_api_token' # <<>> =>
       IF /\ last'.handler = "saveFolioInfo"
          /\ ~last'.login.threw /\ last'.login.code < 300 /\ last'.login.hasToken
       THEN /\ boffo_folio_api_token' = last'.login.token
            /\ boffo_folio_tenant_id' = last'.tenantId
            /\ boffo_folio_url' =
                 (IF last'.url[Len(last'.url)] = "/"
                  THEN SubSeq(last'.url, 1, Len(last'.url) - 1) ELSE last'.url)
       ELSE /\ boffo_folio_api_token' = boffo_folio_api_token
            /\ boffo_folio_url' = boffo_folio_url
            /\ boffo_folio_tenant_id' = boffo_folio_tenant_id]_vars

\* An install ran while the token, the URL and the tenant id of a login at
\* https://b// for tenant t2 were stored: they still are.
C37_Witness ==
  /\ last.handler = "onInstall"
  /\ boffo_folio_api_token = <<"k2">>
  /\ boffo_folio_url = Https \o <<"b", "/">>
  /\ boffo_folio_tenant_id = <<"t", "2">>

\* C38: the turn of the loop over the batches in which the request fails
\* leaves the results sheet as it is and ends the lookup with an error; the
\* sheet then holds rows for barcodes of the batches before the failing one
\* only, none below the rows of those batches, and when each of those
\* batches had a barcode known to FOLIO, one row for each of their barcodes
\* in the order of the selection.
C38_FailedBatchWritesNothing ==
  /\ [][(pc = "batch" /\ pc' = "quit") =>
          /\ sheet' = sheet
          /\ error' # ""]_vars
  /\ []((pc = "quit" /\ batchIndex >= 1) =>
          LET done == (batchIndex - 1) * barcodeSliceSize
              batchOf(i) == ((i - 1) \div barcodeSliceSize) + 1
          IN  /\ error # ""
              /\ Len(sheet) = Len(barcodes) + 1
              /\ \A r \in 2..Len(sheet) :
                   sheet[r] # <<>> =>
                     /\ r <= 1 + done
                     /\ \E i \in 1..done : sheet[r][1] = <<"Barcode", barcodes[i]>>
              /\ (\A i \in 1..done : \E j \in 1..done :
                     batchOf(j) = batchOf(i) /\ barcodes[j] \in known) =>
                   \A i \in 1..done : /\ sheet[i + 1] # <<>>
                                      /\ sheet[i + 1][1] = <<"Barcode", barcodes[i]>>)

\* The request of the second batch failed: the 50 rows of the first batch
\* are on the sheet, the rows below are blank.
C38_Witness ==
  /\ pc = "quit"
  /\ batchIndex = 2
  /\ Len(barcodes) = 52
  /\ \A r \in 2..51 : sheet[r] # <<>>
  /\ sheet[52] = <<>> /\ sheet[53] = <<>>
  /\ error # ""

(***************************************************************************)
(* The call-number command with one call number, the same call number      *)
(* twice, or two call numbers.                                             *)
(***************************************************************************)

InitChoice ==
  /\ LoggedIn
  /\ FieldsFormIdle
  /\ NoHelperCall
  /\ LookupIdle
  /\ PageIdle
  /\ firstCN \in {<<"A">>, <<"B">>}
  /\ lastCN \in {<<>>, <<"A">>, <<"B">>}
  /\ locationId \in {"Any", "L1"}
  /\ items \in ItemLists
  /\ boffo_fields = <<>>
  /\ bulk = 0 /\ bulkESO = 0
  /\ firstItemList = <<>>
  /\ lastItemList = <<>>
  /\ firstESO = 0
  /\ lastESO = 0
  /\ expected = 0
  /\ pc = "getItemsInCallNumberRange"
  /\ error = ""

NextChoice ==
  \/ getItemsInCallNumberRange
  \/ getItemsForCN
  \/ fetchPage
  \/ getLocationsList
  \/ rangeProbe
  \/ searchRequestFails

SpecChoice == InitChoice /\ [][NextChoice]_vars

\* C39: once the command has made its choice, with the last call number
\* empty or equal to the first every request belongs to the search for the
\* single call number, none is a range query, and a search that ran to its
\* end with every page answered in full has fetched every item catalogued
\* under that call number among those of the location searched; with two
\* different call numbers no request belongs to a single-call-number search,
\* the first request is the preliminary query for the first call number, and
\* a search that ran to its end has sent a range query and fetched the pages
\* of the range.
C39_SingleOrRangeSearch ==
  pc # "getItemsInCallNumberRange" =>
    IF lastCN = <<>> \/ firstCN = lastCN
    THEN /\ caller = "single"
         /\ \A i \in 1..Len(requests) :
              /\ requests[i].of = "single"
              /\ requests[i].kind # "rangeProbe"
         /\ (pc = "done" /\ \A i \in 1..Len(requests) : requests[i].got = "items") =>
              \A i \in 1..Len(items) :
                 items[i].cn = firstCN => \E j \in 1..Len(records) : records[j] = items[i]
    ELSE /\ caller \in {"firstCN", "lastCN", "range"}
         /\ \A i \in 1..Len(requests) : requests[i].of # "single"
         /\ Len(requests) >= 1 =>
              requests[1].kind = "cnProbe" /\ requests[1].of = "firstCN"
         /\ pc = "done" =>
              /\ \E i \in 1..Len(requests) : requests[i].kind = "rangeProbe"
              /\ \E i \in 1..Len(requests) :
                   requests[i].kind = "page" /\ requests[i].of = "range"

\* The same call number was given twice at a chosen location, and the search
\* for it alone ran to its end with its two items fetched.
C39_Witness ==
  /\ firstCN = <<"A">> /\ lastCN = <<"A">>
  /\ locationId = "L1"
  /\ caller = "single"
  /\ pc = "done"
  /\ Len(records) = 2
  /\ Len(items) = 3

====
